------------------------------ MODULE MCCodec ------------------------------
(* A small instance of Codec for TLC.                                      *)
EXTENDS Codec

Request(params, metadata) == [type |-> "request", params |-> params, metadata |-> metadata]
Response(ok, result, error, metadata) ==
  [type |-> "response", ok |-> ok, result |-> result, error |-> error, metadata |-> metadata]

Ping == [type |-> "ping", timestamp |-> "value"]
Plain == Request(<<>>, "entries")
Sparse == Request(<<Undefined, "value">>, Empty)
Answer == Response(TRUE, Null, Undefined, "entries")
Refusal == Response(FALSE, Undefined, "error", Undefined)

\* A body compression makes longer, one it makes shorter, and others.
Lengths(m, compressed) ==
  CASE m = Ping -> IF compressed THEN 2 ELSE 1
    [] m = Plain -> 2
    [] m = Sparse -> IF compressed THEN 3 ELSE 2
    [] m = Answer -> IF compressed THEN 1 ELSE 3
    [] m = Refusal -> IF compressed THEN 2 ELSE 3

MCMessages == {Ping, Plain, Sparse, Answer, Refusal}
MCSize == [m \in MCMessages |-> Lengths(m, FALSE)]
MCZipped == [m \in MCMessages |-> Lengths(m, TRUE)]

Default ==
  [serializer |-> "json", serializers |-> {}, thresholdBytes |-> Off, maxBodyLength |-> Off,
   maxDecompressedBodyLength |-> Off, version |-> 1]

MCOptions ==
  {Default,
   [Default EXCEPT !.version = 2],
   [Default EXCEPT !.serializer = "protobuf", !.thresholdBytes = 2],
   [Default EXCEPT !.serializers = {"protobuf"}, !.thresholdBytes = 2, !.maxBodyLength = 2],
   [Default EXCEPT !.serializer = "protobuf", !.serializers = {"json"}, !.thresholdBytes = 3,
                   !.maxDecompressedBodyLength = 2]}
=============================================================================
