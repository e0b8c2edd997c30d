----------------------------- MODULE MCClients ------------------------------
(***************************************************************************)
(* The load generator, the handlers and the selection of reviewers share   *)
(* no variable: each of them is run while the others wait at their start.  *)
(***************************************************************************)
EXTENDS LoadTest, Handlers, Selection

ClientsInit == LoadInit /\ HandlersInit /\ SelectionInit

ClientsNext ==
    \/ /\ HandlersInit /\ SelectionInit
       /\ LoadNext
       /\ UNCHANGED <<handlerVars, selectionVars>>
    \/ /\ LoadInit /\ SelectionInit
       /\ HandlersNext
       /\ UNCHANGED <<loadVars, selectionVars>>
    \/ /\ LoadInit /\ HandlersInit
       /\ Ask
       /\ UNCHANGED <<loadVars, handlerVars>>

ClientsSpec == ClientsInit /\ [][ClientsNext]_<<loadVars, handlerVars, selectionVars>>
=============================================================================
