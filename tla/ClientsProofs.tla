--------------------------- MODULE ClientsProofs ----------------------------
(***************************************************************************)
(* Proofs about both ends of a request: the report of the load generator   *)
(* for any number of requests, and what it remembers of the pull requests  *)
(* it has created; what validation in the handlers lets through, for teams *)
(* of any length, and what the statuses and codes of the answers tell.     *)
(***************************************************************************)
EXTENDS LoadTest, Handlers, WellFoundedInduction, TLAPS

-----------------------------------------------------------------------------
(* The load generator.                                                     *)

Stats == [totalRequests : Nat, successfulRequests : Nat, failedRequests : Nat,
          fast : Nat, slow : Nat]

\* The preparation creates no more pull requests than are remembered, so that
\* it need not forget any.
LoadInv ==
    /\ LoadTypeOK
    /\ RemembersNewestPRs
    /\ stats \in Stats
    /\ stage = "teams" => made = 0
    /\ stage = "prs" => made + left <= InitialPRs

LEMMA StagesAre ==
    /\ Len(LoadStages) = 4
    /\ \A i \in 1 .. Len(LoadStages) :
          LoadStages[i] \notin {"teams", "prs", Reported, "exited"}
<1>1. Len(LoadStages) = 4
  BY DEF LoadStages
<1> SUFFICES ASSUME NEW i \in 1 .. 4
             PROVE  LoadStages[i] \notin {"teams", "prs", Reported, "exited"}
  BY <1>1
<1>2. i = 1 \/ i = 2 \/ i = 3 \/ i = 4
  OBVIOUS
<1> QED
  BY <1>2 DEF LoadStages, Reported

-----------------------------------------------------------------------------
LEMMA RememberKeepsNewest ==
    ASSUME NEW list \in Seq(Nat), NEW n \in Nat, Len(list) <= n,
           \A i \in 1 .. Len(list) : list[i] = n - Len(list) + i,
           Len(list) >= MaxPRs \/ Len(list) = n
    PROVE  /\ Remember(list) \in Seq(Nat)
           /\ Len(Remember(list)) = IF n > MaxPRs THEN MaxPRs ELSE n
           /\ \A i \in 1 .. Len(Remember(list)) :
                 Remember(list)[i] = n - Len(Remember(list)) + i
<1>1. MaxPRs \in Nat
  BY LoadTestAssumption
<1>2. CASE Len(list) > MaxPRs
  <2> DEFINE first == Len(list) - MaxPRs + 1
  <2>1. /\ Remember(list) = SubSeq(list, first, Len(list))
        /\ first \in 1 .. Len(list) + 1
    BY <1>1, <1>2 DEF Remember
  <2>2. /\ Remember(list) \in Seq(Nat)
        /\ Len(Remember(list)) = MaxPRs
    BY <1>1, <1>2, <2>1
  <2>3. ASSUME NEW i \in 1 .. MaxPRs
        PROVE  Remember(list)[i] = n - MaxPRs + i
    <3>1. Remember(list)[i] = list[first + i - 1]
      BY <1>1, <1>2, <2>1
    <3>2. first + i - 1 \in 1 .. Len(list)
      BY <1>1, <1>2
    <3> QED
      BY <1>1, <1>2, <3>1, <3>2
  <2> QED
    BY <1>1, <1>2, <2>2, <2>3
<1>3. CASE Len(list) <= MaxPRs
  <2>1. Remember(list) = list
    BY <1>1, <1>3 DEF Remember
  <2>2. Len(list) = IF n > MaxPRs THEN MaxPRs ELSE n
    BY <1>1, <1>3
  <2> QED
    BY <2>1, <2>2
<1> QED
  BY <1>1, <1>2, <1>3

LEMMA RememberNext ==
    ASSUME LoadTypeOK, RemembersNewestPRs, made' = made + 1,
           prs' = Remember(Append(prs, made + 1))
    PROVE  /\ made' \in Nat
           /\ prs' \in Seq(Nat)
           /\ RemembersNewestPRs'
<1> DEFINE n == made + 1
           list == Append(prs, n)
<1>1. MaxPRs \in Nat /\ made \in Nat /\ n \in Nat /\ prs \in Seq(Nat)
  BY LoadTestAssumption DEF LoadTypeOK
<1>2. Len(prs) = IF made > MaxPRs THEN MaxPRs ELSE made
  BY DEF RemembersNewestPRs
<1>3. \A i \in 1 .. Len(prs) : prs[i] = made - Len(prs) + i
  BY DEF RemembersNewestPRs
<1>4. list \in Seq(Nat) /\ Len(list) = Len(prs) + 1
  BY <1>1
<1>5. ASSUME NEW i \in 1 .. Len(list)
      PROVE  list[i] = n - Len(list) + i
  <2>1. CASE i = Len(prs) + 1
    <3>1. list[i] = n
      BY <1>1, <2>1
    <3> QED
      BY <1>1, <1>4, <2>1, <3>1
  <2>2. CASE i \in 1 .. Len(prs)
    <3>1. list[i] = prs[i]
      BY <1>1, <2>2
    <3>2. prs[i] = made - Len(prs) + i
      BY <1>3, <2>2
    <3>3. Len(prs) \in Nat
      BY <1>1
    <3> QED
      BY <1>1, <1>4, <3>1, <3>2, <3>3
  <2> QED
    BY <1>1, <1>4, <2>1, <2>2
<1>6. Len(list) <= n /\ (Len(list) >= MaxPRs \/ Len(list) = n)
  BY <1>1, <1>2, <1>4
<1>7. prs' = Remember(list) /\ made' = n
  OBVIOUS
<1> HIDE DEF n, list
<1>8. /\ Remember(list) \in Seq(Nat)
      /\ Len(Remember(list)) = IF n > MaxPRs THEN MaxPRs ELSE n
      /\ \A i \in 1 .. Len(Remember(list)) :
            Remember(list)[i] = n - Len(Remember(list)) + i
  BY <1>1, <1>4, <1>5, <1>6, RememberKeepsNewest
<1>9. RemembersNewestPRs'
  BY <1>7, <1>8 DEF RemembersNewestPRs
<1> QED
  BY <1>1, <1>7, <1>8, <1>9

-----------------------------------------------------------------------------
LEMMA LoadInitial == LoadInit => LoadInv
  BY LoadTestAssumption
  DEF LoadInit, LoadInv, LoadTypeOK, RemembersNewestPRs, Stats

\* A request that is counted leaves the counters in step.
LEMMA AddResultCounts ==
    ASSUME LoadInv, NEW result \in Results, AddResult(result)
    PROVE  /\ stats' \in Stats
           /\ stats'.totalRequests = stats'.successfulRequests + stats'.failedRequests
           /\ stats'.successfulRequests = stats'.fast + stats'.slow
<1>1. /\ stats.totalRequests \in Nat /\ stats.successfulRequests \in Nat
      /\ stats.failedRequests \in Nat /\ stats.fast \in Nat /\ stats.slow \in Nat
      /\ stats.totalRequests = stats.successfulRequests + stats.failedRequests
      /\ stats.successfulRequests = stats.fast + stats.slow
  BY DEF LoadInv, LoadTypeOK, Stats
<1>2. stats \in Stats
  BY DEF LoadInv
<1> DEFINE answered == IF result # "failed" THEN 1 ELSE 0
           failed == IF result = "failed" THEN 1 ELSE 0
           fast == IF result = "fast" THEN 1 ELSE 0
           slow == IF result = "slow" THEN 1 ELSE 0
<1>3. /\ stats'.totalRequests = stats.totalRequests + 1
      /\ stats'.successfulRequests = stats.successfulRequests + answered
      /\ stats'.failedRequests = stats.failedRequests + failed
      /\ stats'.fast = stats.fast + fast
      /\ stats'.slow = stats.slow + slow
  BY <1>2 DEF AddResult, Stats
<1>4. /\ answered \in Nat /\ failed \in Nat /\ fast \in Nat /\ slow \in Nat
      /\ answered + failed = 1
      /\ answered = fast + slow
  BY DEF Results
<1>5. stats' = [totalRequests |-> stats'.totalRequests,
                successfulRequests |-> stats'.successfulRequests,
                failedRequests |-> stats'.failedRequests,
                fast |-> stats'.fast, slow |-> stats'.slow]
  BY <1>2 DEF AddResult, Stats
<1> HIDE DEF answered, failed, fast, slow
<1>6. /\ stats'.totalRequests \in Nat /\ stats'.successfulRequests \in Nat
      /\ stats'.failedRequests \in Nat /\ stats'.fast \in Nat /\ stats'.slow \in Nat
  BY <1>1, <1>3, <1>4
<1>7. stats' \in Stats
  BY <1>5, <1>6 DEF Stats
<1>8. stats'.totalRequests = stats'.successfulRequests + stats'.failedRequests
  BY <1>1, <1>3, <1>4
<1>9. stats'.successfulRequests = stats'.fast + stats'.slow
  BY <1>1, <1>3, <1>4
<1> QED
  BY <1>7, <1>8, <1>9

LEMMA LoadStep == LoadInv /\ [LoadNext]_loadVars => LoadInv'
<1> SUFFICES ASSUME LoadInv, [LoadNext]_loadVars PROVE LoadInv'
  OBVIOUS
<1> USE DEF LoadInv, LoadTypeOK, RemembersNewestPRs
<1>1. CASE Setup_createTeam
  BY <1>1 DEF Setup_createTeam
<1>2. CASE Setup_teamsDone
  BY <1>2, LoadTestAssumption DEF Setup_teamsDone
<1>3. CASE Setup_makeRequest
  <2>1. CASE UNCHANGED <<made, prs>>
    BY <1>3, <2>1, LoadTestAssumption DEF Setup_makeRequest
  <2>2. CASE made' = made + 1 /\ prs' = Append(prs, made + 1)
    <3>1. made + 1 <= MaxPRs /\ made \in Nat /\ MaxPRs \in Nat /\ prs \in Seq(Nat)
      BY <1>3, LoadTestAssumption DEF Setup_makeRequest
    <3>2. Len(prs) = made
      BY <3>1
    <3>3. prs' = Remember(Append(prs, made + 1))
      BY <2>2, <3>1, <3>2 DEF Remember
    <3>4. prs' \in Seq(Nat) /\ RemembersNewestPRs'
      <4> HIDE DEF LoadTypeOK, RemembersNewestPRs
      <4> QED
        BY <2>2, <3>3, RememberNext
    <3> QED
      BY <1>3, <2>2, <3>1, <3>4, LoadTestAssumption DEF Setup_makeRequest
  <2> QED
    BY <1>3, <2>1, <2>2 DEF Setup_makeRequest
<1>4. CASE NextStage
  <2>1. stage' \in {Reported} \cup {LoadStages[i] : i \in 1 .. Len(LoadStages)}
    BY <1>4, StagesAre DEF NextStage
  <2>2. stage' \notin {"teams", "prs"}
    BY <2>1, StagesAre DEF Reported
  <2> QED
    BY <1>4, <2>1, <2>2 DEF NextStage
<1>5. CASE runRandomRequest
  <2>1. PICK result \in Results :
          /\ AddResult(result)
          /\ \/ UNCHANGED <<made, prs>>
             \/ made' = made + 1 /\ prs' = Remember(Append(prs, made + 1))
    BY <1>5 DEF runRandomRequest
  <2>2. stage' = stage /\ left' = left /\ stage \notin {"teams", "prs"}
    BY <1>5, StagesAre DEF runRandomRequest, Working
  <2>3. made' \in Nat /\ prs' \in Seq(Nat) /\ RemembersNewestPRs'
    <3>1. CASE UNCHANGED <<made, prs>>
      BY <3>1
    <3>2. CASE made' = made + 1 /\ prs' = Remember(Append(prs, made + 1))
      <4> HIDE DEF LoadTypeOK, RemembersNewestPRs
      <4> QED
        BY <3>2, RememberNext
    <3> QED
      BY <2>1, <3>1, <3>2
  <2> QED
    BY <2>1, <2>2, <2>3, AddResultCounts
<1>6. CASE UNCHANGED loadVars
  BY <1>6 DEF loadVars
<1> QED
  BY <1>1, <1>2, <1>3, <1>4, <1>5, <1>6 DEF LoadNext, Finished

-----------------------------------------------------------------------------
(* The arithmetic of the verdict.                                          *)

LEMMA PercentileIsMet ==
    ASSUME NEW n \in Nat, n > 0, NEW fast \in Nat, fast <= n,
           NEW percentile \in {95, 99},
           PercentileIndex(n, percentile) < fast
    PROVE  100 * fast >= percentile * n
  BY DEF PercentileIndex, Ceiling

LEMMA PercentileIsMissed ==
    ASSUME NEW n \in Nat, n > 0, NEW fast \in Nat, fast <= n,
           NEW percentile \in {95, 99},
           ~(PercentileIndex(n, percentile) < fast)
    PROVE  100 * (fast - 1) < percentile * n
  BY DEF PercentileIndex, Ceiling

LEMMA VerdictFollows == ASSUME LoadInv PROVE VerdictIsFair
<1>1. /\ stats.fast \in Nat /\ stats.slow \in Nat
      /\ stats.totalRequests \in Nat /\ stats.successfulRequests \in Nat
      /\ stats.failedRequests \in Nat
      /\ stats.totalRequests = stats.successfulRequests + stats.failedRequests
      /\ stats.successfulRequests = Answered
      /\ Answered = stats.fast + stats.slow
  BY DEF LoadInv, LoadTypeOK, Stats, Answered
<1>2. ASSUME AllTargetsMet
      PROVE  /\ stats.totalRequests > 0
             /\ 100 * stats.fast >= 99 * Answered
             /\ 100000 * stats.fast >= 98901 * stats.totalRequests
  <2>1. /\ stats.totalRequests > 0
        /\ 1000 * Answered >= 999 * stats.totalRequests
        /\ PercentileOK(99)
    BY <1>1, <1>2 DEF AllTargetsMet, SuccessOK
  <2>2. 100 * stats.fast >= 99 * Answered
    <3>1. CASE Answered = 0
      BY <1>1, <3>1
    <3>2. CASE Answered > 0
      BY <1>1, <2>1, <3>2, PercentileIsMet DEF PercentileOK
    <3> QED
      BY <1>1, <3>1, <3>2
  <2> QED
    BY <1>1, <2>1, <2>2
<1>3. ASSUME NEW percentile \in {95, 99}, ~PercentileOK(percentile)
      PROVE  100 * (stats.fast - 1) < percentile * Answered
  BY <1>1, <1>3, PercentileIsMissed DEF PercentileOK
<1> QED
  BY <1>2, <1>3 DEF VerdictIsFair

-----------------------------------------------------------------------------
THEOREM LoadInvariant == LoadSpec => []LoadInv
  BY LoadInitial, LoadStep, PTL DEF LoadSpec

\* Every request is counted once, as successful or as failed (AddResult,
\* main.go:81), and every answer has its duration.
THEOREM LoadTypeCorrect == LoadSpec => []LoadTypeOK
<1>1. LoadInv => LoadTypeOK
  BY DEF LoadInv
<1> QED
  BY <1>1, LoadInvariant, PTL

\* What is remembered are the newest pull requests (main.go:334), whatever the
\* limit: the preparation fits below it and the stages cut the oldest off.
THEOREM NewestAreRemembered == LoadSpec => []RemembersNewestPRs
<1>1. LoadInv => RemembersNewestPRs
  BY DEF LoadInv
<1> QED
  BY <1>1, LoadInvariant, PTL

\* The verdict is fair for a report on any number of requests, not only near
\* the lengths the run reaches.
THEOREM VerdictIsSound == LoadSpec => []VerdictIsFair
<1>1. LoadInv => VerdictIsFair
  BY VerdictFollows
<1> QED
  BY <1>1, LoadInvariant, PTL

-----------------------------------------------------------------------------
(* The first of several errors.                                            *)

\* A nonempty set of naturals has a least element.
LEMMA LeastNat ==
    ASSUME NEW S \in SUBSET Nat, S # {}
    PROVE  \E m \in S : \A k \in S : m <= k
<1>1. PICK m \in S : \A k \in S : ~ (<<k, m>> \in OpToRel(<, Nat))
  BY NatLessThanWellFounded, WFMin, Zenon
<1>2. ASSUME NEW k \in S PROVE m <= k
  <2>1. <<k, m>> \notin {ss \in Nat \X Nat : ss[1] < ss[2]}
    BY <1>1 DEF OpToRel
  <2> QED BY <2>1
<1> QED BY <1>2

\* The error found is one of them, and "OK" exactly when all of them are.
LEMMA FirstErrorIsOne ==
    ASSUME NEW n \in Nat, NEW errors, DOMAIN errors = 1 .. n
    PROVE  /\ FirstError(errors) = "OK" <=> \A i \in 1 .. n : errors[i] = "OK"
           /\ FirstError(errors) \in {"OK"} \cup {errors[i] : i \in 1 .. n}
<1>1. CASE \A i \in DOMAIN errors : errors[i] = "OK"
  BY <1>1 DEF FirstError
<1>2. CASE \E i \in DOMAIN errors : errors[i] # "OK"
  <2> DEFINE wrong == {i \in 1 .. n : errors[i] # "OK"}
  <2>1. PICK m \in wrong : \A k \in wrong : m <= k
    <3>1. wrong \in SUBSET Nat /\ wrong # {}
      BY <1>2
    <3> HIDE DEF wrong
    <3> QED BY <3>1, LeastNat
  <2> DEFINE first(i) == errors[i] # "OK" /\ \A k \in 1 .. i - 1 : errors[k] = "OK"
  <2>2. m \in DOMAIN errors /\ first(m)
    BY <2>1
  <2>3. PICK c \in DOMAIN errors : c = (CHOOSE i \in DOMAIN errors : first(i)) /\ first(c)
    <3> HIDE DEF first
    <3> QED BY <2>2, Zenon
  <2>4. FirstError(errors) = errors[c]
    BY <2>3, <1>2 DEF FirstError
  <2> QED BY <2>3, <2>4, <1>2
<1> QED BY <1>1, <1>2

-----------------------------------------------------------------------------
(* Validation.                                                             *)

Good(s) == s.core \notin {"", "long"}

AllRequests == NameRequests \cup TeamRequests

\* A string passes exactly when it is neither blank nor too long.
LEMMA StringValid ==
    ASSUME NEW s \in Strings, NEW required, required # "OK"
    PROVE  /\ validateString(s, required) = "OK" <=> Good(s)
           /\ validateString(s, required) \in {"OK", required, "ErrStringTooLong"}
<1>1. s.core \in {"", "a", "b", "long"}
  BY DEF Strings
<1>2. CASE s.core = ""
  BY <1>2 DEF validateString, Good
<1>3. CASE s.core = "long"
  BY <1>3 DEF validateString, Good
<1>4. CASE s.core \in {"a", "b"}
  BY <1>4 DEF validateString, Good
<1> QED BY <1>1, <1>2, <1>3, <1>4

\* The same of each of its callers, whose error is one of validation.
LEMMA NamesValid ==
    ASSUME NEW s \in Strings
    PROVE  \A answered \in {validateTeamName(s), validateUserID(s), validatePRID(s),
                            validatePRName(s), validateUsername(s)} :
              /\ answered = "OK" <=> Good(s)
              /\ answered \in {"OK"} \cup ValidationErrors
BY StringValid DEF validateTeamName, validateUserID, validatePRID, validatePRName,
                   validateUsername, ValidationErrors

\* What is known of the errors is known of the first.
LEMMA FirstOfTwo ==
    ASSUME NEW e, NEW f, {e, f} \subseteq {"OK"} \cup ValidationErrors
    PROVE  /\ FirstError(<<e, f>>) = "OK" <=> e = "OK" /\ f = "OK"
           /\ FirstError(<<e, f>>) \in {"OK"} \cup ValidationErrors
<1>1. DOMAIN <<e, f>> = 1 .. 2 /\ 1 .. 2 = {1, 2}
  OBVIOUS
<1>2. <<e, f>>[1] = e /\ <<e, f>>[2] = f
  OBVIOUS
<1> DEFINE errors == <<e, f>>
<1> HIDE DEF errors
<1>3. /\ FirstError(errors) = "OK" <=> \A i \in 1 .. 2 : errors[i] = "OK"
      /\ FirstError(errors) \in {"OK"} \cup {errors[i] : i \in 1 .. 2}
  BY <1>1, FirstErrorIsOne DEF errors
<1> QED BY <1>1, <1>2, <1>3 DEF errors

LEMMA FirstOfThree ==
    ASSUME NEW e, NEW f, NEW g, {e, f, g} \subseteq {"OK"} \cup ValidationErrors
    PROVE  /\ FirstError(<<e, f, g>>) = "OK" <=> e = "OK" /\ f = "OK" /\ g = "OK"
           /\ FirstError(<<e, f, g>>) \in {"OK"} \cup ValidationErrors
<1>1. DOMAIN <<e, f, g>> = 1 .. 3 /\ 1 .. 3 = {1, 2, 3}
  OBVIOUS
<1>2. <<e, f, g>>[1] = e /\ <<e, f, g>>[2] = f /\ <<e, f, g>>[3] = g
  OBVIOUS
<1> DEFINE errors == <<e, f, g>>
<1> HIDE DEF errors
<1>3. /\ FirstError(errors) = "OK" <=> \A i \in 1 .. 3 : errors[i] = "OK"
      /\ FirstError(errors) \in {"OK"} \cup {errors[i] : i \in 1 .. 3}
  BY <1>1, FirstErrorIsOne DEF errors
<1> QED BY <1>1, <1>2, <1>3 DEF errors

LEMMA FirstOfList ==
    ASSUME NEW n \in Nat, NEW errors, DOMAIN errors = 1 .. n,
           \A i \in 1 .. n : errors[i] \in {"OK"} \cup ValidationErrors
    PROVE  /\ FirstError(errors) = "OK" <=> \A i \in 1 .. n : errors[i] = "OK"
           /\ FirstError(errors) \in {"OK"} \cup ValidationErrors
BY FirstErrorIsOne

\* A team passes exactly when its strings are good, it has a member and its
\* members' user ids are distinct, however many they are.
LEMMA TeamValid ==
    ASSUME NEW team, NEW n \in Nat, NEW members,
           team.members = members, DOMAIN members = 1 .. n, Len(members) = n,
           team.team_name \in Strings,
           \A i \in 1 .. n : members[i].user_id \in Strings /\ members[i].username \in Strings
    PROVE  /\ validateTeam(team) = "OK" <=>
                /\ Good(team.team_name)
                /\ members # <<>>
                /\ \A i, j \in DOMAIN members :
                      /\ Good(members[i].user_id) /\ Good(members[i].username)
                      /\ members[i].user_id = members[j].user_id => i = j
           /\ validateTeam(team) \in {"OK"} \cup ValidationErrors
<1> DEFINE repeated(i) == \E j \in i + 1 .. n : members[j].user_id = members[i].user_id
<1>1. ASSUME NEW i \in 1 .. n
      PROVE  /\ MemberError(members, i) = "OK" <=>
                   Good(members[i].user_id) /\ Good(members[i].username) /\ ~ repeated(i)
             /\ MemberError(members, i) \in {"OK"} \cup ValidationErrors
  <2>1. /\ validateUserID(members[i].user_id) = "OK" <=> Good(members[i].user_id)
        /\ validateUserID(members[i].user_id) \in {"OK"} \cup ValidationErrors
        /\ validateUsername(members[i].username) = "OK" <=> Good(members[i].username)
        /\ validateUsername(members[i].username) \in {"OK"} \cup ValidationErrors
    BY NamesValid
  <2>2. /\ DuplicateError(members, i) = "OK" <=> ~ repeated(i)
        /\ DuplicateError(members, i) \in {"OK"} \cup ValidationErrors
    BY DEF DuplicateError, ValidationErrors
  <2> QED BY <2>1, <2>2, FirstOfThree DEF MemberError
<1> DEFINE errors == [i \in DOMAIN members |-> MemberError(members, i)]
<1>2. /\ FirstError(errors) = "OK" <=> \A i \in 1 .. n : MemberError(members, i) = "OK"
      /\ FirstError(errors) \in {"OK"} \cup ValidationErrors
  <2>1. DOMAIN errors = 1 .. n /\ \A i \in 1 .. n : errors[i] = MemberError(members, i)
    OBVIOUS
  <2>2. \A i \in 1 .. n : errors[i] \in {"OK"} \cup ValidationErrors
    BY <1>1, <2>1
  <2> HIDE DEF errors
  <2> QED BY <2>1, <2>2, FirstOfList
<1>3. /\ validateTeamName(team.team_name) = "OK" <=> Good(team.team_name)
      /\ validateTeamName(team.team_name) \in {"OK"} \cup ValidationErrors
  BY NamesValid
<1> DEFINE empty == IF members = <<>> THEN "ErrTeamMustHaveMembers" ELSE "OK"
<1>4. /\ empty = "OK" <=> members # <<>>
      /\ empty \in {"OK"} \cup ValidationErrors
  BY DEF ValidationErrors
<1>5. validateTeam(team) =
        FirstError(<<validateTeamName(team.team_name), empty, FirstError(errors)>>)
  BY DEF validateTeam
<1>6. (\A i \in 1 .. n : ~ repeated(i)) <=>
        \A i, j \in 1 .. n : members[i].user_id = members[j].user_id => i = j
  <2>1. ASSUME NEW i \in 1 .. n, NEW j \in i + 1 .. n,
               members[j].user_id = members[i].user_id
        PROVE  j \in 1 .. n /\ i # j
    OBVIOUS
  <2>2. ASSUME NEW i \in 1 .. n, NEW j \in 1 .. n, i # j
        PROVE  j \in i + 1 .. n \/ i \in j + 1 .. n
    BY <2>2
  <2> QED BY <2>1, <2>2
<1> HIDE DEF empty, errors
<1>7. /\ validateTeam(team) = "OK" <=>
           /\ Good(team.team_name) /\ members # <<>>
           /\ \A i \in 1 .. n : MemberError(members, i) = "OK"
      /\ validateTeam(team) \in {"OK"} \cup ValidationErrors
  BY <1>2, <1>3, <1>4, <1>5, FirstOfThree
<1>8. (\A i \in 1 .. n : MemberError(members, i) = "OK") <=>
        /\ \A i \in 1 .. n : Good(members[i].user_id) /\ Good(members[i].username)
        /\ \A i \in 1 .. n : ~ repeated(i)
  BY <1>1
<1> HIDE DEF repeated
<1> QED BY <1>6, <1>7, <1>8

\* The shape of a team that a client can send.
LEMMA TeamShape ==
    ASSUME HandlersAssumption, NEW req \in TeamRequests
    PROVE  /\ req.op = "CreateTeam"
           /\ req.team_name \in Strings
           /\ \E n \in Nat :
                 /\ DOMAIN req.members = 1 .. n /\ Len(req.members) = n
                 /\ \A i \in 1 .. n : /\ req.members[i].user_id \in Strings
                                      /\ req.members[i].username \in Strings
<1> DEFINE Username == {[core |-> c, padded |-> TRUE] : c \in {"", "a", "long"}}
           Member == [user_id : Strings, username : Username]
<1>1. /\ req.op = "CreateTeam" /\ req.team_name \in Strings
      /\ \E n \in 0 .. MaxMembers : req.members \in [1 .. n -> Member]
  BY DEF TeamRequests
<1>2. Username \subseteq Strings
  <2>1. ASSUME NEW c \in {"", "a", "long"} PROVE [core |-> c, padded |-> TRUE] \in Strings
    BY DEF Strings
  <2> QED BY <2>1
<1>3. PICK n \in 0 .. MaxMembers : req.members \in [1 .. n -> Member]
  BY <1>1
<1>4. n \in Nat
  BY DEF HandlersAssumption
<1>5. Len(req.members) = n /\ DOMAIN req.members = 1 .. n
  <2> HIDE DEF Member
  <2>1. req.members \in Seq(Member)
    BY <1>3, <1>4
  <2> QED BY <1>3, <1>4, <2>1
<1>6. \A i \in 1 .. n : /\ req.members[i].user_id \in Strings
                        /\ req.members[i].username \in Strings
  <2>1. ASSUME NEW i \in 1 .. n PROVE req.members[i] \in Member
    BY <1>3
  <2>2. \A m \in Member : m.user_id \in Strings /\ m.username \in Username
    OBVIOUS
  <2> HIDE DEF Member
  <2> QED BY <1>2, <2>1, <2>2
<1> QED BY <1>1, <1>4, <1>5, <1>6

\* What TeamValid says, of the teams that a client can send.
LEMMA TeamRequestValid ==
    ASSUME HandlersAssumption, NEW req \in TeamRequests
    PROVE  /\ validateTeam(req) = "OK" <=>
                /\ Good(req.team_name)
                /\ req.members # <<>>
                /\ \A i, j \in DOMAIN req.members :
                      /\ Good(req.members[i].user_id) /\ Good(req.members[i].username)
                      /\ req.members[i].user_id = req.members[j].user_id => i = j
           /\ validateTeam(req) \in {"OK"} \cup ValidationErrors
<1>1. PICK n \in Nat :
         /\ DOMAIN req.members = 1 .. n /\ Len(req.members) = n
         /\ \A i \in 1 .. n : /\ req.members[i].user_id \in Strings
                              /\ req.members[i].username \in Strings
  BY TeamShape
<1>2. req.team_name \in Strings
  BY TeamShape
<1> QED BY <1>1, <1>2, TeamValid, Zenon

\* Whatever is sent, validation answers with one of its errors or with "OK".
LEMMA ValidateAnswers ==
    ASSUME HandlersAssumption, NEW req \in AllRequests
    PROVE  validate(req) \in {"OK"} \cup ValidationErrors
<1> DEFINE Valid == {"OK"} \cup ValidationErrors
<1>0. /\ \A s \in Strings : /\ validateTeamName(s) \in Valid /\ validateUserID(s) \in Valid
                            /\ validatePRID(s) \in Valid /\ validatePRName(s) \in Valid
  BY NamesValid
<1>1. CASE req \in TeamRequests
  <2>1. validateTeam(req) \in Valid
    BY <1>1, TeamRequestValid
  <2>2. req.op = "CreateTeam"
    BY <1>1, TeamShape
  <2> QED BY <2>1, <2>2 DEF validate
<1>2. CASE req \in [op : {"GetTeam"}, team_name : Strings]
  BY <1>0, <1>2 DEF validate
<1>3. CASE req \in [op : {"SetUserActive", "GetPRsByReviewer"}, user_id : Strings]
  BY <1>0, <1>3 DEF validate
<1>4. CASE req \in [op : {"CreatePR"}, pull_request_id : Strings,
                    pull_request_name : Strings, author_id : Strings]
  <2>1. /\ req.op = "CreatePR" /\ req.pull_request_id \in Strings
        /\ req.pull_request_name \in Strings /\ req.author_id \in Strings
    BY <1>4
  <2>2. validate(req) = FirstError(<<validatePRID(req.pull_request_id),
                                     validatePRName(req.pull_request_name),
                                     validateUserID(req.author_id)>>)
    BY <2>1 DEF validate
  <2> QED BY <1>0, <2>1, <2>2, FirstOfThree
<1>5. CASE req \in [op : {"MergePR"}, pull_request_id : Strings]
  BY <1>0, <1>5 DEF validate
<1>6. CASE req \in [op : {"ReassignReviewer"}, pull_request_id : Strings,
                    old_user_id : Strings]
  <2>1. /\ req.op = "ReassignReviewer" /\ req.pull_request_id \in Strings
        /\ req.old_user_id \in Strings
    BY <1>6
  <2>2. validate(req) = FirstError(<<validatePRID(req.pull_request_id),
                                     validateUserID(req.old_user_id)>>)
    BY <2>1 DEF validate
  <2> QED BY <1>0, <2>1, <2>2, FirstOfTwo
<1>7. CASE req \in [op : {"DeactivateTeamUsers"}, team_name : Strings,
                    user_ids : {<<>>} \cup Strings \X Strings]
  <2>1. /\ req.op = "DeactivateTeamUsers" /\ req.team_name \in Strings
        /\ req.user_ids \in {<<>>} \cup Strings \X Strings
    BY <1>7
  <2> DEFINE errors == [i \in DOMAIN req.user_ids |-> validateUserID(req.user_ids[i])]
  <2>2. validate(req) = FirstError(<<validateTeamName(req.team_name), FirstError(errors)>>)
    BY <2>1 DEF validate
  <2>3. PICK n \in Nat : /\ DOMAIN req.user_ids = 1 .. n
                         /\ \A i \in 1 .. n : req.user_ids[i] \in Strings
    <3>1. CASE req.user_ids = <<>>
      <4>1. DOMAIN req.user_ids = 1 .. 0
        BY <3>1
      <4> QED BY <4>1
    <3>2. CASE req.user_ids \in Strings \X Strings
      <4>1. DOMAIN req.user_ids = 1 .. 2 /\ \A i \in 1 .. 2 : req.user_ids[i] \in Strings
        BY <3>2
      <4> QED BY <4>1
    <3> QED BY <2>1, <3>1, <3>2
  <2>4. DOMAIN errors = 1 .. n /\ \A i \in 1 .. n : errors[i] \in Valid
    BY <1>0, <2>3
  <2>5. FirstError(errors) \in Valid
    <3> HIDE DEF errors
    <3> QED BY <2>4, FirstOfList
  <2> HIDE DEF errors
  <2> QED BY <1>0, <2>1, <2>2, <2>5, FirstOfTwo
<1>8. \/ req \in TeamRequests
      \/ req \in [op : {"GetTeam"}, team_name : Strings]
      \/ req \in [op : {"SetUserActive", "GetPRsByReviewer"}, user_id : Strings]
      \/ req \in [op : {"CreatePR"}, pull_request_id : Strings,
                  pull_request_name : Strings, author_id : Strings]
      \/ req \in [op : {"MergePR"}, pull_request_id : Strings]
      \/ req \in [op : {"ReassignReviewer"}, pull_request_id : Strings, old_user_id : Strings]
      \/ req \in [op : {"DeactivateTeamUsers"}, team_name : Strings,
                  user_ids : {<<>>} \cup Strings \X Strings]
  BY Zenon DEF AllRequests, NameRequests
<1> QED BY <1>1, <1>2, <1>3, <1>4, <1>5, <1>6, <1>7, <1>8, Zenon

-----------------------------------------------------------------------------
(* An answer is the one that its request and its outcome call for.         *)

UndecodableAnswered ==
    /\ request.op \notin {"GetTeam", "GetPRsByReviewer"}
    /\ outcome = "undecodable"
    /\ answer = Respond(400, "VALIDATION_ERROR")

InvalidAnswered ==
    /\ validate(request) # "OK"
    /\ outcome = validate(request)
    /\ answer = handleServiceError(outcome)

ServedAnswered ==
    /\ validate(request) = "OK"
    /\ outcome \in Outcomes[request.op]
    /\ answer = IF outcome = "OK" THEN SuccessOf(request.op) ELSE handleServiceError(outcome)

HandlersInv ==
    /\ request \in AllRequests \cup {NoRequest}
    /\ answer # NoAnswer =>
          /\ request \in AllRequests
          /\ UndecodableAnswered \/ InvalidAnswered \/ ServedAnswered

LEMMA HandlersInvInductive ==
    ASSUME HandlersAssumption
    PROVE  HandlersSpec => []HandlersInv
<1>1. HandlersInit => HandlersInv
  BY DEF HandlersInit, HandlersInv
<1>2. HandlersInv /\ [HandlersNext]_handlerVars => HandlersInv'
  <2> SUFFICES ASSUME HandlersInv, [HandlersNext]_handlerVars
               PROVE  HandlersInv'
    OBVIOUS
  <2>1. CASE Receive
    <3>1. answer = NoAnswer
      BY <2>1, HandlersAssumption DEF Receive, HandlersInv, HandlersAssumption, AllRequests
    <3> QED BY <2>1, <3>1 DEF Receive, HandlersInv, AllRequests
  <2>2. CASE Refuse
    <3>1. request \in AllRequests /\ request' = request
      BY <2>2 DEF Refuse, HandlersInv
    <3>2. UndecodableAnswered' \/ InvalidAnswered'
      BY <2>2, <3>1 DEF Refuse, UndecodableAnswered, InvalidAnswered
    <3> QED BY <3>1, <3>2 DEF HandlersInv
  <2>3. CASE Serve
    <3>1. request \in AllRequests /\ request' = request
      BY <2>3 DEF Serve, HandlersInv
    <3>2. ServedAnswered'
      BY <2>3, <3>1 DEF Serve, ServedAnswered
    <3> QED BY <3>1, <3>2 DEF HandlersInv
  <2>4. CASE UNCHANGED handlerVars
    BY <2>4 DEF handlerVars, HandlersInv, UndecodableAnswered, InvalidAnswered, ServedAnswered
  <2> QED BY <2>1, <2>2, <2>3, <2>4 DEF HandlersNext
<1> QED BY <1>1, <1>2, PTL DEF HandlersSpec

\* Only a team that validation finds sound reaches the service: no name of it is
\* blank or too long, it has a member, and no two of its members have one user id,
\* for teams of any length (validateTeam).
THEOREM OnlySoundTeamsAreServed ==
    ASSUME HandlersAssumption
    PROVE  HandlersSpec => []AcceptedTeamsAreSound
<1>1. HandlersInv => AcceptedTeamsAreSound
  <2> SUFFICES ASSUME HandlersInv, answer # NoAnswer, request.op = "CreateTeam",
                      outcome # "undecodable"
               PROVE  AcceptedTeamsAreSound
    BY DEF AcceptedTeamsAreSound
  <2>1. request \in AllRequests /\ (InvalidAnswered \/ ServedAnswered)
    BY DEF HandlersInv, UndecodableAnswered
  <2>2. request \in TeamRequests
    BY <2>1 DEF AllRequests, NameRequests
  <2>3. validate(request) = validateTeam(request)
    BY DEF validate
  <2>4. outcome \in Outcomes["CreateTeam"] <=> validateTeam(request) = "OK"
    <3>1. Outcomes["CreateTeam"] = {"OK", "ErrTeamExists", "ErrTeamNotFound", "Internal"}
      BY DEF Outcomes
    <3>2. CASE InvalidAnswered
      <4>1. outcome \in ValidationErrors
        BY <2>1, <3>2, ValidateAnswers DEF InvalidAnswered
      <4> QED BY <2>3, <3>1, <3>2, <4>1 DEF InvalidAnswered, ValidationErrors
    <3>3. CASE ServedAnswered
      BY <2>3, <3>3 DEF ServedAnswered
    <3> QED BY <2>1, <3>2, <3>3
  <2>5. validateTeam(request) = "OK" <=>
          /\ Good(request.team_name)
          /\ request.members # <<>>
          /\ \A i, j \in DOMAIN request.members :
                /\ Good(request.members[i].user_id) /\ Good(request.members[i].username)
                /\ request.members[i].user_id = request.members[j].user_id => i = j
    BY <2>2, TeamRequestValid
  <2> QED BY <2>4, <2>5 DEF AcceptedTeamsAreSound, Good
<1> QED BY <1>1, HandlersInvInductive, PTL

-----------------------------------------------------------------------------
(* What an answer tells.                                                   *)

\* The list of handleServiceError, entry by entry.
LEMMA ErrorsAnswered ==
    /\ \A err \in ValidationErrors : handleServiceError(err) = Respond(400, "VALIDATION_ERROR")
    /\ handleServiceError("ErrTeamExists") = Respond(400, "TEAM_EXISTS")
    /\ \A err \in {"ErrTeamNotFound", "ErrUserNotFound", "ErrPRNotFound"} :
          handleServiceError(err) = Respond(404, "NOT_FOUND")
    /\ handleServiceError("ErrPRExists") = Respond(409, "PR_EXISTS")
    /\ handleServiceError("ErrPRMerged") = Respond(409, "PR_MERGED")
    /\ handleServiceError("ErrReviewerNotAssigned") = Respond(409, "NOT_ASSIGNED")
    /\ handleServiceError("ErrNoCandidate") = Respond(409, "NO_CANDIDATE")
    /\ handleServiceError("Internal") = Respond(500, "INTERNAL_SERVER_ERROR")
BY DEF handleServiceError, ValidationErrors

ServiceErrors ==
    {"ErrTeamExists", "ErrTeamNotFound", "ErrUserNotFound", "ErrPRNotFound", "ErrPRExists",
     "ErrPRMerged", "ErrReviewerNotAssigned", "ErrNoCandidate", "Internal"}

\* The service has no other outcomes, and none of them is one of validation.
LEMMA OutcomesKnown ==
    ASSUME NEW req \in AllRequests
    PROVE  /\ Outcomes[req.op] \subseteq {"OK"} \cup ServiceErrors
           /\ ServiceErrors \cap ({"OK", "undecodable"} \cup ValidationErrors) = {}
<1>1. req.op \in {"CreateTeam", "GetTeam", "SetUserActive", "GetPRsByReviewer",
                  "DeactivateTeamUsers", "CreatePR", "MergePR", "ReassignReviewer"}
  BY DEF AllRequests, NameRequests, TeamRequests
<1>2. \A op \in {"CreateTeam", "GetTeam", "SetUserActive", "GetPRsByReviewer",
                 "DeactivateTeamUsers", "CreatePR", "MergePR", "ReassignReviewer"} :
         Outcomes[op] \subseteq {"OK"} \cup ServiceErrors
  BY DEF Outcomes, ServiceErrors
<1> QED BY <1>1, <1>2 DEF ServiceErrors, ValidationErrors

\* Two errors of the service have one answer only if nothing was found.
LEMMA ErrorsDiffer ==
    ASSUME NEW err \in ServiceErrors, NEW other \in ServiceErrors,
           handleServiceError(other) = handleServiceError(err), other # err
    PROVE  handleServiceError(err).code = "NOT_FOUND"
BY ErrorsAnswered DEF ServiceErrors, Respond

\* What is refused is refused with a status of its own: 500 only for a failure,
\* 200 or 201 only for a success, and no answer but NOT_FOUND stands for two rules
\* of the service (handleServiceError).
THEOREM AnswersTellTheOutcome ==
    ASSUME HandlersAssumption
    PROVE  HandlersSpec => []RefusalsAreTold
<1>1. HandlersInv => RefusalsAreTold
  <2> SUFFICES ASSUME HandlersInv, answer # NoAnswer
               PROVE  RefusalsAreTold
    BY DEF RefusalsAreTold
  <2> DEFINE told ==
        /\ answer.status = 500 <=> outcome = "Internal"
        /\ answer.status \in {200, 201} <=> outcome = "OK"
      others ==
        \A other \in Outcomes[request.op] \ {"OK"} :
           handleServiceError(other) = answer =>
              other = outcome \/ answer.code = "NOT_FOUND"
  <2>1. request \in AllRequests
    BY DEF HandlersInv
  <2>2. Outcomes[request.op] \ {"OK"} \subseteq ServiceErrors
    BY <2>1, OutcomesKnown
  <2>3. CASE UndecodableAnswered \/ InvalidAnswered
    <3>1. answer = Respond(400, "VALIDATION_ERROR")
      BY <2>1, <2>3, ValidateAnswers, ErrorsAnswered
      DEF UndecodableAnswered, InvalidAnswered
    <3>2. outcome \in {"undecodable"} \cup ValidationErrors
      BY <2>1, <2>3, ValidateAnswers DEF UndecodableAnswered, InvalidAnswered
    <3>3. told
      BY <3>1, <3>2 DEF Respond, ValidationErrors
    <3>4. \A other \in ServiceErrors : handleServiceError(other).code # "VALIDATION_ERROR"
      BY ErrorsAnswered DEF ServiceErrors, Respond
    <3>5. others
      BY <2>2, <3>1, <3>4 DEF Respond
    <3> QED BY <3>3, <3>5 DEF RefusalsAreTold
  <2>4. CASE ServedAnswered /\ outcome = "OK"
    <3>1. answer.status \in {200, 201}
      BY <2>4 DEF ServedAnswered, SuccessOf, Respond
    <3>2. \A other \in ServiceErrors : handleServiceError(other).status \notin {200, 201}
      BY ErrorsAnswered DEF ServiceErrors, Respond
    <3>3. told
      BY <2>4, <3>1
    <3>4. others
      BY <2>2, <3>1, <3>2
    <3> QED BY <3>3, <3>4 DEF RefusalsAreTold
  <2>5. CASE ServedAnswered /\ outcome # "OK"
    <3>1. outcome \in ServiceErrors /\ answer = handleServiceError(outcome)
      BY <2>2, <2>5 DEF ServedAnswered
    <3>2. told
      BY <3>1, ErrorsAnswered DEF ServiceErrors, Respond
    <3>3. others
      BY <2>2, <3>1, ErrorsDiffer
    <3> QED BY <3>2, <3>3 DEF RefusalsAreTold
  <2> QED BY <2>3, <2>4, <2>5 DEF HandlersInv
<1> QED BY <1>1, HandlersInvInductive, PTL
=============================================================================
