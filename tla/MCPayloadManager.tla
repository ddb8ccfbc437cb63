--------------------------- MODULE MCPayloadManager ---------------------------
(* Payloads for checking PayloadManager. *)
EXTENDS PayloadManager

Number(type, length, little) == [type |-> type, length |-> length, little_endian |-> little]
Bytes(length) == [type |-> "IDENTITY", length |-> length, little_endian |-> FALSE]

\* Two counters around a timestamp, and a payload of one counter with both of
\* the lengths that write_numeric() treats apart and one it does not.
MCPayloads ==
    <<<<Bytes(1), Number("COUNTER", 4, FALSE), Number("TIMESTAMP", 3, FALSE),
        Number("COUNTER", 2, TRUE)>>,
      <<Number("TIMESTAMP", 8, FALSE), Bytes(2), Number("COUNTER", 4, TRUE)>>>>

MCSteps == <<<<7, 1>>, <<100>>>>
===============================================================================
