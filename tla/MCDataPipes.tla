---------------------------- MODULE MCDataPipes ----------------------------
EXTENDS DataPipes

Msg(kind, hs, bs) == [kind |-> kind, hs |-> hs, bs |-> bs]

MCStreams == <<
    {<<Msg("frame", 1, 1)>>},
    {<<Msg("junk", 0, 1), Msg("frame", 1, 1), Msg("frame", 1, 0)>>,
     <<Msg("old", 0, 0), Msg("frame", 1, 0)>>} >>

=============================================================================
