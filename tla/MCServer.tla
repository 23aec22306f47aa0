------------------------------ MODULE MCServer ------------------------------
(***************************************************************************)
(* Server.tla over three configuration files, chosen so that every way a   *)
(* start or a reload can end is met: `full' lists a logger and an          *)
(* application that needs it, and names the logger; `swap' drops the       *)
(* logger, keeps a and adds b, which needs a and comes first, so that a    *)
(* reload of it can succeed where a start cannot; `twice' lists a name     *)
(* twice, has a type no binary exports, names a logger that is none, and   *)
(* comes with other binaries.                                              *)
(***************************************************************************)
EXTENDS Server, TLC

CONSTANTS l, a, b, logger, worker, lib1, lib2, l1, w1, w2,
          full, swap, twice

MCName == {l, a, b}
MCType == {logger, worker}
MCBinary == {lib1, lib2}
MCObject == {l1, w1, w2}
MCSymmetry == Permutations({w1, w2})
MCTypeOf == [o \in MCObject |-> IF o = l1 THEN logger ELSE worker]
MCPath == {full, swap, twice}

MCNode(n, t, needs) == [name |-> n, type |-> t, needs |-> needs]
MCConstructed == {MCNode(a, worker, {})}
MCBins == [t \in MCType |-> lib1]

MCFile ==
  [p \in MCPath |->
     CASE p = full -> [apps |-> <<MCNode(l, logger, {}), MCNode(a, worker, {l})>>,
                       bins |-> MCBins, logger |-> l]
       [] p = swap -> [apps |-> <<MCNode(b, worker, {a}), MCNode(a, worker, {})>>,
                       bins |-> MCBins, logger |-> none]
       [] p = twice -> [apps |-> <<MCNode(b, worker, {}), MCNode(b, worker, {}),
                                   MCNode(l, logger, {})>>,
                        bins |-> [t \in MCType |->
                                    IF t = worker THEN lib2 ELSE none],
                        logger |-> b]]
=============================================================================
