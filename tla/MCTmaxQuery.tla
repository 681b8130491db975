----------------------------- MODULE MCTmaxQuery -----------------------------
(* Two requests: one names a file twice, and another one of which it wants nothing; *)
(* one names an unknown file between two known ones.  Two fetches compete for the    *)
(* chunks of the first, one of another type asks for the second's.  Any one failure. *)
EXTENDS TmaxQuery

File(name, n) == [name |-> name, chunks |-> n]
MCFiles ==
  [twice   |-> <<File("tdisk0", 1), File("tdisk0", 0), File("tdisk3", 0)>>,
   unknown |-> <<File("tdisk1", 1), File("disk", 1), File("tdisk2", 1)>>]
MCId == DOMAIN MCFiles
MCFileCsdMap == {"tdisk0", "tdisk1", "tdisk2", "tdisk3"}
MCFetch == {"first", "second", "other"}
MCIdOf == [first |-> "twice", second |-> "twice", other |-> "unknown"]
==============================================================================
