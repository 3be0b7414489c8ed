------------------------------ MODULE MCBTree ------------------------------
(***************************************************************************)
(* Small trees for TLC.                                                    *)
(***************************************************************************)
EXTENDS BTreeProps

(* Every key comes with a value of its own (Value = Key), so that a value  *)
(* that strays to another key shows.                                       *)
OwnValue == call = None /\ call'.op = "insert" => call'.val = call'.key

FairOwnValueSpec == Init /\ [][Next /\ OwnValue]_vars /\ WF_vars(Running)

(* EdgeCrashSpec; the thread does not stop of itself inside a call. *)
FairEdgeCrashSpec == EdgeCrashSpec /\ WF_vars(Running)
=============================================================================
