------------------------------ MODULE InfoCell ------------------------------
(***************************************************************************)
(* What the type-information cache promises, whatever the scheduling of    *)
(* the builds: an info is finished or abandoned once, and the cell of a    *)
(* class, once it has a finished info of that class, keeps it for the life *)
(* of the class.  _core.c relies on it where StructInfo_Convert            *)
(* dereferences struct_info without a lock.  The promise for a class is    *)
(* void from the moment a build is begun over another.                     *)
(***************************************************************************)
CONSTANTS Class, InfoId, NoInfo

VARIABLES
    state,  \* info -> "unused", "building", "ready" or "failed"
    of,     \* info -> the class it was begun for
    cell,   \* class -> its finished info, or NoInfo
    void    \* the classes that have lost the promise

vars == <<state, of, cell, void>>

Init ==
    /\ state = [i \in InfoId |-> "unused"]
    /\ of \in [InfoId -> Class]
    /\ cell = [c \in Class |-> NoInfo]
    /\ void = {}

Begin(i, c) ==
    /\ state[i] = "unused"
    /\ state' = [state EXCEPT ![i] = "building"]
    /\ of' = [of EXCEPT ![i] = c]
    /\ \/ UNCHANGED <<cell, void>>
       \/ /\ void' = void \cup {c}
          /\ cell' = [cell EXCEPT ![c] = NoInfo]

Abandon(i) ==
    /\ state[i] = "building"
    /\ state' = [state EXCEPT ![i] = "failed"]
    /\ UNCHANGED <<of, cell, void>>

Finish(i) ==
    /\ state[i] = "building"
    /\ state' = [state EXCEPT ![i] = "ready"]
    /\ IF of[i] \in void THEN UNCHANGED cell
       ELSE cell[of[i]] = NoInfo /\ cell' = [cell EXCEPT ![of[i]] = i]
    /\ UNCHANGED <<of, void>>

Next ==
    \E i \in InfoId :
        \/ \E c \in Class : Begin(i, c)
        \/ Abandon(i)
        \/ Finish(i)

Spec == Init /\ [][Next]_vars
=============================================================================
