------------------------------- MODULE Login -------------------------------
(***************************************************************************)
(* What Connect promises its caller, whatever the servers and the network  *)
(* do, without reads, packets and deadlines: three servers one after the   *)
(* other, on one connection at a time; a server is left behind only for    *)
(* what it granted to this call, never after a refusal; in the end the     *)
(* connection to the last one is the caller's, or there is none.           *)
(***************************************************************************)
EXTENDS Integers

CONSTANT Slots   \* the slots OnCharList may answer

VARIABLES
    stage,      \* "out" outside Connect, else the server that is talked to
    dialled,    \* number of connections so far
    mine,       \* the connection Connect has to close, 0: none
    given,      \* those that are the caller's
    granted,    \* the servers whose tokens this call has
    refused,    \* a server has refused or banned this call
    answers,    \* the slots the caller answered in this call
    identity,   \* the slot OnIdentity was given, -1: not yet, 0: the caller was not asked
    outcome     \* how the last call ended

vars == <<stage, dialled, mine, given, granted, refused, answers, identity, outcome>>

Init ==
    /\ stage = "out"
    /\ dialled = 0
    /\ mine = 0
    /\ given = {}
    /\ granted = {}
    /\ refused = FALSE
    /\ answers = {}
    /\ identity = -1
    /\ outcome = "none"

\* Nothing of an earlier call is used.
Begin ==
    /\ stage = "out"
    /\ stage' = "login"
    /\ granted' = {}
    /\ refused' = FALSE
    /\ answers' = {}
    /\ identity' = -1
    /\ outcome' = "none"
    /\ UNCHANGED <<dialled, mine, given>>

Dial ==
    /\ stage # "out"
    /\ mine = 0
    /\ dialled' = dialled + 1
    /\ mine' = dialled + 1
    /\ UNCHANGED <<stage, given, granted, refused, answers, identity, outcome>>

\* The login or the char server issues its tokens.
Grant ==
    /\ stage \in {"login", "char"}
    /\ mine # 0
    /\ granted' = granted \cup {stage}
    /\ UNCHANGED <<stage, dialled, mine, given, refused, answers, identity, outcome>>

Refuse ==
    /\ mine # 0
    /\ refused' = TRUE
    /\ UNCHANGED <<stage, dialled, mine, given, granted, answers, identity, outcome>>

\* The caller answers a list of characters.
Answer ==
    /\ stage = "char"
    /\ mine # 0
    /\ \E slot \in Slots : answers' = answers \cup {slot}
    /\ UNCHANGED <<stage, dialled, mine, given, granted, refused, identity, outcome>>

\* On to the char server.
LoggedIn ==
    /\ stage = "login" /\ "login" \in granted
    /\ mine # 0 /\ mine' = 0
    /\ ~refused
    /\ stage' = "char"
    /\ UNCHANGED <<dialled, given, granted, refused, answers, identity, outcome>>

\* On to the map server: OnIdentity is given an answer of the caller.
Selected ==
    /\ stage = "char" /\ "char" \in granted
    /\ mine # 0 /\ mine' = 0
    /\ ~refused
    /\ identity' \in answers \cup {0}
    /\ stage' = "map"
    /\ UNCHANGED <<dialled, given, granted, refused, answers, outcome>>

\* In the map: OnReady is given the connection. Without OnReady it is closed.
Ready ==
    /\ stage = "map"
    /\ mine # 0 /\ mine' = 0
    /\ ~refused
    /\ stage' = "out"
    /\ \/ outcome' = "ready" /\ given' = given \cup {mine}
       \/ outcome' = "nil" /\ given' = given
    /\ UNCHANGED <<dialled, granted, refused, answers, identity>>

\* OnFailed, at any time.
GiveUp ==
    /\ stage # "out"
    /\ stage' = "out"
    /\ mine' = 0
    /\ outcome' = "failed"
    /\ UNCHANGED <<dialled, given, granted, refused, answers, identity>>

Next ==
    \/ Begin \/ Dial \/ Grant \/ Refuse \/ Answer
    \/ LoggedIn \/ Selected \/ Ready \/ GiveUp

Spec == Init /\ [][Next]_vars
=============================================================================
