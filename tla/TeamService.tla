---------------------------- MODULE TeamService -----------------------------
(***************************************************************************)
(* CreateTeam and SetUserActive of internal/service.                       *)
(*                                                                         *)
(* A team is nothing but the users that name it: it exists while some user *)
(* does.  CreateTeam asks whether it exists in one statement and inserts   *)
(* its members in a transaction of its own, later.                         *)
(***************************************************************************)
EXTENDS Requests

\* Mutant: an existing team is no obstacle.
CreateTeam_TeamExists_ignored(r) ==
    /\ pc[r] = "CreateTeam.TeamExists"
    /\ Goto(r, "CreateTeam.CreateTeam")
    /\ UNCHANGED <<locals, tables>>

CreateTeam_TeamExists(r) ==
    /\ pc[r] = "CreateTeam.TeamExists"
    /\ \/ Fails(r)
       \/ /\ TeamExists(call[r].team)
          /\ Finish(r, "ErrTeamExists")
       \/ /\ ~TeamExists(call[r].team)
          /\ Goto(r, "CreateTeam.CreateTeam")
          /\ UNCHANGED locals
    /\ UNCHANGED tables

CreateTeam_CreateTeam(r) ==
    /\ pc[r] = "CreateTeam.CreateTeam"
    /\ \/ Fails(r) /\ UNCHANGED tables
       \/ /\ CreateTeamTx(call[r].team, call[r].members)
          /\ \/ Fails(r)
             \/ Goto(r, "CreateTeam.GetTeam") /\ UNCHANGED locals

\* Another request may have moved every member to another team by now.
CreateTeam_GetTeam(r) ==
    /\ pc[r] = "CreateTeam.GetTeam"
    /\ \/ Fails(r)
       \/ GetTeam(call[r].team) = {} /\ Finish(r, "ErrTeamNotFound")
       \/ GetTeam(call[r].team) # {} /\ Finish(r, "OK")
    /\ UNCHANGED tables

-----------------------------------------------------------------------------
SetUserActive_SetUserActive(r) ==
    /\ pc[r] = "SetUserActive.SetUserActive"
    /\ \/ Fails(r) /\ UNCHANGED tables
       \/ /\ ~UserExists(call[r].user)
          /\ Finish(r, "ErrUserNotFound")
          /\ UNCHANGED tables
       \/ /\ UserExists(call[r].user)
          /\ SetUserActive(call[r].user, call[r].is_active)
          /\ \/ Fails(r)
             \/ Goto(r, "SetUserActive.GetUserByID") /\ UNCHANGED locals

SetUserActive_GetUserByID(r) ==
    /\ pc[r] = "SetUserActive.GetUserByID"
    /\ \/ Fails(r)
       \/ Finish(r, IF UserExists(call[r].user) THEN "OK" ELSE "ErrUserNotFound")
    /\ UNCHANGED tables

-----------------------------------------------------------------------------
CreateTeam(r) == \/ CreateTeam_TeamExists(r)
                 \/ CreateTeam_CreateTeam(r)
                 \/ CreateTeam_GetTeam(r)

SetActive(r) == \/ SetUserActive_SetUserActive(r)
                \/ SetUserActive_GetUserByID(r)
=============================================================================
