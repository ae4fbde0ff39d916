----------------------------- MODULE MCPipeline -----------------------------
(***************************************************************************)
(* Small instances of Pipeline for TLC.                                    *)
(***************************************************************************)
EXTENDS Pipeline

\* The clock goes back once and stays behind its newest value.
MCInput == <<5, 3, 4, 6>>
MCShortInput == <<5, 3>>
MCLimits == {NoLimit, 2}
MCNoLimit == {NoLimit}
=============================================================================
