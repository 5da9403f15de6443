----------------------------- MODULE AnyServer -----------------------------
(***************************************************************************)
(* ConnectionFSM against servers and a network that may do anything: every *)
(* read returns any packets of the phase, in any order and number, with or *)
(* without an error; every dial and write may fail; the caller may cancel  *)
(* and reconnect.  A read may bring no whole packet (part of a frame).     *)
(***************************************************************************)
EXTENDS ConnectionFSM

CONSTANTS
    MaxBatch,   \* bound: packets in one read
    MaxReads    \* bound: successful reads in one phase (a server that keeps
                \* sending keeps every deadline from passing)

ASSUME AnyServerBounds == MaxBatch \in Nat /\ MaxReads \in Nat

VARIABLE reads  \* successful reads in this phase

allVars == <<vars, reads>>

PhasePackets ==
    CASE phase = "login" -> LoginPackets
      [] phase = "char"  -> CharPackets
      [] OTHER           -> MapPackets

\* The char server closes the connection after a ban (fsm.go:525).
Batches ==
    {b \in UNION {[1..n -> PhasePackets] : n \in 0..MaxBatch} :
       phase = "char" /\ BanIsZoneSized =>
         \A i \in 1..(Len(b) - 1) : b[i].id # "SC_NOTIFY_BAN"}

ServerAnswers ==
    /\ step = "read"
    /\ reads < MaxReads
    /\ ~res.stuck
    /\ \E b \in Batches, err \in BOOLEAN : Read(b, err)
    /\ reads' = reads + 1

ClientSteps ==
    /\ Progress \/ Faults \/ ReadFails
    /\ reads' = IF step = "dial" THEN 0 ELSE reads

CallerSteps ==
    /\ Connect \/ Cancel
    /\ UNCHANGED reads

AnyInit == Init /\ reads = 0

\* The caller may stop after MaxConnects calls.
Finished == phase = "idle" /\ attempt = MaxConnects /\ UNCHANGED allVars

AnyNext == ServerAnswers \/ ClientSteps \/ CallerSteps \/ Finished

AnySpec == AnyInit /\ [][AnyNext]_allVars

\* Connect is one goroutine that is always runnable, or blocked in a call that
\* its deadline ends.
AnyFairSpec == AnySpec /\ WF_allVars(ClientSteps \/ ServerAnswers)
=============================================================================
