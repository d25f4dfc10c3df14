--------------------------- MODULE MCApplication ---------------------------
(* Instances of Application for TLC. *)
EXTENDS Application

MCWorkers == {"worker"}
MCRequests == {"request"}
MCExports == {"export"}
MCOps == (1 .. Runtimes) \X Names
MCCancellable == (1 .. Runtimes) \X Workers

(* A runtime has its worker, its recording and its stop; the first one has *)
(* a request or an export besides.                                         *)
MCNext ==
    /\ ApplicationNext
    /\ \A n \in Requests \cup Exports, r \in 2 .. Runtimes : pc'[<<r, n>>] = "none"
    /\ \A n \in Requests, x \in Exports : pc'[<<1, n>>] = "none" \/ pc'[<<1, x>>] = "none"
MCSpec == ApplicationInit /\ [][MCNext]_avars /\ ApplicationFairness
=============================================================================
