--------------------------- MODULE FlushedContent ---------------------------
(***************************************************************************)
(* What a caller of remoteStore sees who puts blocks, flushes and then     *)
(* asks for the existing content: RemoteStore with two history variables.  *)
(***************************************************************************)
EXTENDS MCRemoteStore

VARIABLES completed, \* completed[f]: puts completed when f was called
          expected   \* expected[a]: what flushes before a have promised

callerVars == <<completed, expected>>

FInit ==
    /\ Init
    /\ completed = [f \in FlushCall |-> {}]
    /\ expected = [a \in Ask |-> {}]

Called(state, before, after) == before = "unmade" /\ after = state

FNext ==
    /\ Next
    /\ completed' = [f \in FlushCall |->
          IF Called("tokens", flush[f], flush'[f]) THEN Completed ELSE completed[f]]
    /\ expected' = [a \in Ask |->
          IF Called("open", asked[a], asked'[a])
          THEN UNION {completed[f] : f \in {g \in FlushCall : flush[g] = "ok"}}
          ELSE expected[a]]

FSpec == FInit /\ [][FNext]_<<vars, callerVars>>

\* GetExistingContent, made after a Flush returned success, lists every block
\* whose put had completed when that Flush was called (TestGetExistingContent
\* puts six blocks, flushes, and expects all six).
FlushedContentExists ==
    [][\A a \in Ask \ Preflights :
          asked[a] = "open" /\ asked'[a] = "answered"
              => expected[a] \subseteq storeIndex']_<<vars, callerVars>>
=============================================================================
