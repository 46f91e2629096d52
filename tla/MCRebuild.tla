------------------------------- MODULE MCRebuild -------------------------------
(***************************************************************************)
(* Rebuild for TLC: a 4-tuple that is used again and one that is not.      *)
(***************************************************************************)
EXTENDS Rebuild

CONSTANTS k1, k2

Field(name, value) == [name |-> name, value |-> value, sensitive |-> Len(value) > 3]

(* Lengths on either side of what a prefix holds, and an empty string.     *)
Short == Field(<<1, 2, 3>>, <<>>)
Long == Field(<<4>>, <<0, 1, 2, 3, 4, 5, 6, 7>>)

Request(sort) == [sort |-> sort, msg |-> Block(HEADERS, 1, END_STREAM, 0, <<Short, Long>>)]
Response(sort) == [sort |-> sort, msg |-> Block(HEADERS, 1, 0, 0, <<Short>>)]
Promise(sort) == [sort |-> sort, msg |-> Block(PUSH_PROMISE, 1, 0, 2, <<Long>>)]
Table == [sort |-> "plain", msg |-> OtherFrame(SETTINGS, 0, 0, <<5>>)]
Payload(sort) == [sort |-> sort, msg |-> OtherFrame(DATA, 1, END_STREAM, <<>>)]

Life(client, server) == [client |-> client, server |-> server]

Sent ==
  (k1 :> (0 :> Life(<<Request("bad"), Request("ref")>>, <<Table>>)
            @@ 1 :> Life(<<Request("plain"), Request("ref")>>, <<Promise("plain"), Response("ref")>>)))
  @@
  (k2 :> (0 :> Life(<<Payload("long"), Request("ref")>>, <<Response("bad"), Response("ref")>>)))

Known(c, s) == [client |-> c, server |-> s]

Snapshots ==
  { (k1 :> Known(1, None)) @@ (k2 :> Known(None, None)),
    (k1 :> Known(2, None)) @@ (k2 :> Known(3, 1)) }

Magic == <<9, 9>>

FirstNumbers == [client |-> 50, server |-> 10]
================================================================================
