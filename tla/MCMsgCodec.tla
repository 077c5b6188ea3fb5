----------------------------- MODULE MCMsgCodec -----------------------------
EXTENDS MsgCodec

\* No string, the empty one, and two of different lengths.
MCStrings == {NULL, <<>>, <<1>>, <<1, 2>>}
=============================================================================
