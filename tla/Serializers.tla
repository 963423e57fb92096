---------------------------- MODULE Serializers ----------------------------
(***************************************************************************)
(* What JSON and protobuf make of a message (serializer.ts and             *)
(* protobuf-serializer.ts): which messages can be serialized, what is on   *)
(* the wire, and what the other side reads.                                *)
(*                                                                         *)
(* A message is a record of the fields of its type, ids and names left     *)
(* out.  Values: Undefined, Null, or any other.  Metadata: Undefined,      *)
(* Empty, or with entries.  A wire form has only the fields that are       *)
(* written, each in an encoding that reads back as the value.              *)
(***************************************************************************)
EXTENDS Sequences, Functions

Undefined == "undefined"
Null == "null"
Empty == "{}"

SerializerNames == {"json", "protobuf"}

MessageTypes == {"request", "response", "ping", "pong"}

Fields(type) ==
  CASE type = "request"  -> {"type", "params", "metadata"}
    [] type = "response" -> {"type", "ok", "result", "error", "metadata"}
    [] type \in {"ping", "pong"} -> {"type", "timestamp"}

Optional == {"result", "error", "metadata"}

\* The fields of m that are not undefined.
Defined(m) == {f \in DOMAIN m : f \in Optional => m[f] # Undefined}

-----------------------------------------------------------------------------
\* JSON.stringify drops undefined fields and writes null for undefined params.
JsonForm(m) ==
  [f \in Defined(m) |->
     IF f = "params"
     THEN [i \in DOMAIN m.params |-> IF m.params[i] = Undefined THEN Null ELSE m.params[i]]
     ELSE m[f]]

\* RpcMessageModel.verify: each param must be a string, and JSON.stringify makes
\* none of undefined.
Verifies(m) == m.type = "request" => \A i \in DOMAIN m.params : m.params[i] # Undefined

\* toProtobufPayload and encode: no bytes for an empty list or an empty map.
Written(m) ==
  {f \in Defined(m) : /\ f = "params" => m.params # <<>>
                      /\ f = "metadata" => m.metadata # Empty}

ProtobufForm(m) == Restrict(m, Written(m))

\* What a field that is not on the wire reads as.
Absent(serializer, f) ==
  CASE serializer = "protobuf" /\ f = "params" -> <<>>
    [] serializer = "protobuf" /\ f = "ok" -> FALSE
    [] OTHER -> Undefined

-----------------------------------------------------------------------------
\* serialize() does not throw.
Serializable(serializer, m) == serializer = "protobuf" => Verifies(m)

Serialize(serializer, m) == IF serializer = "json" THEN JsonForm(m) ELSE ProtobufForm(m)

Deserialize(serializer, w) ==
  [f \in Fields(w.type) |-> IF f \in DOMAIN w THEN w[f] ELSE Absent(serializer, f)]

=============================================================================
