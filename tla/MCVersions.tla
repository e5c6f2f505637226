----------------------------- MODULE MCVersions -----------------------------
(***************************************************************************)
(* Two versions that share a chunk, and two commands at a time: an upsync  *)
(* of the one or a cloneStore of both, and one command of any kind.        *)
(* Everything may fail in an upsync and in the command that reads what it  *)
(* uploads; of two uploads, one meets some of the faults and the other the *)
(* others.                                                                 *)
(***************************************************************************)
EXTENDS Versions, TLC

CONSTANTS a, b, c, v, w, first, second

VersionContent == (v :> {a, b}) @@ (w :> {b, c})

Do(command, paths, withLocal, faults) ==
    [command |-> command, paths |-> paths, local |-> withLocal, faults |-> faults]

Pairs(f, others) == {(first :> f) @@ (second :> s) : s \in others}

Lossy == {"exists", "write"}

Putting == Lossy \cup {"crash"}

AllTasks ==
    Pairs(Do("upsync", <<v>>, TRUE, FaultKind),
          {Do("downsync", <<v>>, TRUE, FaultKind), Do("validate", <<v>>, FALSE, FaultKind),
           Do("cp", <<v>>, FALSE, FaultKind),
           Do("createVersionStoreIndex", <<v>>, FALSE, FaultKind)})
    \cup Pairs(Do("upsync", <<v>>, TRUE, Putting),
               {Do("cloneStore", <<v>>, FALSE, {"source", "read", "flush"}),
                Do("init", <<>>, FALSE, FaultKind \ Putting)})
    \cup Pairs(Do("upsync", <<v>>, TRUE, {"flush", "read"}),
               {Do("cloneStore", <<v>>, FALSE, Putting)})
    \cup Pairs(Do("cloneStore", <<v, w>>, TRUE, Lossy),
               {Do("downsync", <<w>>, FALSE, {"read"}), Do("downsync", <<v>>, TRUE, {"read"})})
    \cup Pairs(Do("cloneStore", <<v, w>>, TRUE, FaultKind \ Lossy),
               {Do("downsync", <<w>>, TRUE, {"read"})})

\* Only the flushes of an upload fail.
FlushTasks ==
    Pairs(Do("upsync", <<v>>, TRUE, {"flush"}),
          {Do(command, <<v>>, FALSE, {}) : command \in {"downsync", "cloneStore"}})

OldBlocks == {{b, c}}
=============================================================================
