---------------------------- MODULE MCPipeline ----------------------------
EXTENDS Pipeline, TLC

CONSTANTS a, b, c, d, e

\* a and b are the roots, c joins them, d follows c, e follows a.
MCRank == a :> 1 @@ b :> 2 @@ e :> 3 @@ c :> 4 @@ d :> 5
MCDependsOn == a :> {} @@ b :> {} @@ c :> {a, b} @@ d :> {c} @@ e :> {a}
MCRetries == a :> 1 @@ b :> 0 @@ c :> 1 @@ d :> 0 @@ e :> 0
=============================================================================
