--------------------------- MODULE EXSessionProofs ---------------------------
(***************************************************************************)
(* Proofs about EXSession, for any number of requests, clients, sessions   *)
(* and failures.  A retry carries the session of its own login, a request  *)
(* in flight has no result yet (OwnInv), and the client of the engine is   *)
(* open (OpenInv).                                                         *)
(***************************************************************************)
EXTENDS EXSession, TLAPS

OwnInv == \A r \in Requests :
  /\ req[r].pc = "send_again" => req[r].own = req[r].header
  /\ req[r].pc # "idle" => req[r].result = "none"

OpenInv == ex \in open

IInv == TypeOK /\ OwnInv /\ OpenInv

USE DEF vars

-------------------------------------------------------------------------------
(* The helpers of _request *)

LEMMA EndedType ==
  ASSUME NEW j \in Request, NEW result \in Results
  PROVE  /\ Ended(j, result) \in Request
         /\ Ended(j, result).pc = "idle" /\ Ended(j, result).result = result
BY DEF Ended, Request

LEMMA GoesType ==
  ASSUME NEW j \in Request, NEW pc \in Waits
  PROVE  /\ Goes(j, pc) \in Request
         /\ \/ Goes(j, pc) = [j EXCEPT !.pc = pc]
            \/ /\ Goes(j, pc) = Ended(j, "closed")
               /\ j.client \notin open
BY DEF Goes, Ended, Request, Results

-------------------------------------------------------------------------------
(* What each action makes of the request it is about *)

LEMMA BeginMakes ==
  ASSUME IInv, NEW r \in Requests, Begin(r)
  PROVE  /\ req'[r] \in Request
         /\ req'[r].pc \in {"login", "send"} /\ req'[r].result = "none"
         /\ req'[r].pc = "send" => req'[r].header \in Sessions
<1> DEFINE j == [req[r] EXCEPT !.client = ex, !.header = token[ex], !.result = "none"]
<1>1. j \in Request /\ j.client = ex /\ j.header = token[ex] /\ j.result = "none"
  BY DEF IInv, TypeOK, Request, Results
<1>2. FirstWait \in {"login", "send"} /\ (FirstWait = "send" => token[ex] \in Sessions)
  BY DEF IInv, TypeOK, FirstWait
<1>3. req'[r] = [j EXCEPT !.pc = FirstWait]
  BY <1>1 DEF Begin, Becomes, Goes, IInv, TypeOK, OpenInv
<1> QED
  BY <1>1, <1>2, <1>3 DEF Request, Waits

LEMMA GrantMakes ==
  ASSUME IInv, NEW r \in Requests, LoginGranted(r)
  PROVE  /\ req'[r] \in Request /\ token' \in [Clients -> Sessions \cup {NoToken}]
         /\ live' \subseteq Sessions
         /\ \/ /\ req'[r].pc \in {"send", "send_again"}
               /\ req'[r].own = req'[r].header /\ req'[r].header \in Sessions
               /\ req'[r].result = req[r].result
            \/ /\ req'[r].pc = "idle" /\ req'[r].result = "closed"
               /\ req[r].client \notin open
<1> DEFINE s == CHOOSE s \in Unused : TRUE
           j == [req[r] EXCEPT !.header = s, !.own = s]
           pc == IF j.pc = "login" THEN "send" ELSE "send_again"
<1>1. s \in Sessions
  BY DEF LoginGranted, Unused
<1>2. /\ j \in Request /\ j.client = req[r].client /\ j.pc = req[r].pc
      /\ j.header = s /\ j.own = s /\ j.result = req[r].result
  BY <1>1 DEF IInv, TypeOK, Request
<1>3. req'[r] = Goes(j, pc) /\ token' = [token EXCEPT ![j.client] = s]
      /\ live' = (live \cap Referred) \cup {s}
  BY DEF LoginGranted, HeaderAfterLogin, Kept, Becomes, IInv, TypeOK
<1>4. pc \in Waits
  BY DEF Waits
<1> HIDE DEF s, j, pc
<1>5. req'[r] \in Request
      /\ \/ req'[r] = [j EXCEPT !.pc = pc]
         \/ req'[r] = Ended(j, "closed") /\ j.client \notin open
  BY <1>2, <1>3, <1>4, GoesType
<1>6. token' \in [Clients -> Sessions \cup {NoToken}] /\ live' \subseteq Sessions
  BY <1>1, <1>3 DEF IInv, TypeOK
<1>7. pc \in {"send", "send_again"}
  BY DEF pc
<1> QED
  BY <1>1, <1>2, <1>5, <1>6, <1>7 DEF Request, Ended

LEMMA EndMakes ==
  ASSUME IInv, NEW r \in Requests, LoginFails(r) \/ Answered(r) \/ Broken(r)
  PROVE  /\ req'[r] \in Request /\ token' \in [Clients -> Sessions \cup {NoToken}]
         /\ req'[r].pc = "idle" /\ req'[r].result \in {"auth_error", "answer", "broken"}
<1>1. PICK result \in {"auth_error", "answer", "broken"} : req'[r] = Ended(req[r], result)
  BY DEF LoginFails, Answered, Broken, Becomes, IInv, TypeOK
<1>2. req'[r] \in Request
  BY <1>1, EndedType DEF IInv, TypeOK, Results
<1>3. token' \in [Clients -> Sessions \cup {NoToken}]
  BY DEF LoginFails, Answered, Broken, IInv, TypeOK
<1>4. Ended(req[r], result).pc = "idle" /\ Ended(req[r], result).result = result
  BY DEF Ended, IInv, TypeOK, Request
<1> QED
  BY <1>1, <1>2, <1>3, <1>4

LEMMA RejectMakes ==
  ASSUME IInv, NEW r \in Requests, Rejected(r)
  PROVE  /\ req'[r] \in Request
         /\ \/ req'[r].pc = "login_again" /\ req'[r].result = req[r].result
            \/ /\ req'[r].pc = "idle" /\ req'[r].result = "closed"
               /\ req[r].client \notin open
            \/ /\ req'[r].pc = "idle" /\ req'[r].result = "unauthorized"
               /\ req[r].pc = "send_again" /\ req[r].header \notin live
<1>1. CASE req[r].pc = "send"
  <2>1. req'[r] = Goes(req[r], "login_again")
    BY <1>1 DEF Rejected, Retried, Becomes, IInv, TypeOK
  <2>2. req[r] \in Request /\ "login_again" \in Waits /\ "closed" \in Results
    BY DEF IInv, TypeOK, Waits, Results
  <2>3. CASE req'[r] = [req[r] EXCEPT !.pc = "login_again"]
    BY <2>1, <2>2, <2>3, GoesType DEF Request
  <2>4. CASE req'[r] = Ended(req[r], "closed") /\ req[r].client \notin open
    BY <2>2, <2>4, EndedType
  <2> QED
    BY <2>1, <2>2, <2>3, <2>4, GoesType
<1>2. CASE req[r].pc = "send_again"
  <2>1. req'[r] = Ended(req[r], "unauthorized") /\ req[r].header \notin live
    BY <1>2 DEF Rejected, Retried, Becomes, IInv, TypeOK
  <2>2. req[r] \in Request /\ "unauthorized" \in Results
    BY DEF IInv, TypeOK, Results
  <2> QED
    BY <1>2, <2>1, <2>2, EndedType
<1> QED
  BY <1>1, <1>2 DEF Rejected, Sending

\* The actions of one request leave the others alone.
LEMMA OthersRest ==
  ASSUME IInv, NEW r \in Requests,
         Begin(r) \/ Replies(r) \/ LoginFails(r) \/ Broken(r)
  PROVE  /\ DOMAIN req' = Requests /\ \A q \in Requests \ {r} : req'[q] = req[q]
         /\ UNCHANGED <<ex, open, reloads>> /\ faults' \in 0 .. MaxFaults
<1>1. \E j : req' = [req EXCEPT ![r] = j]
  BY DEF Begin, Replies, LoginGranted, Answered, Rejected, LoginFails, Broken, Becomes
<1>2. faults' \in 0 .. MaxFaults
  BY EXSessionAssumption DEF Begin, Replies, LoginGranted, Answered, Rejected, LoginFails,
     Broken, Fault, IInv, TypeOK
<1>3. UNCHANGED <<ex, open, reloads>>
  BY DEF Begin, Replies, LoginGranted, Answered, Rejected, LoginFails, Broken
<1> QED
  BY <1>1, <1>2, <1>3 DEF IInv, TypeOK

-------------------------------------------------------------------------------
(* The invariant *)

LEMMA InitHolds == Init => IInv
<1> SUFFICES ASSUME Init PROVE IInv
  OBVIOUS
<1>1. req \in [Requests -> Request] /\ \A r \in Requests : req[r].pc = "idle"
  BY DEF Init, Request, Waits, Results
<1> QED
  BY <1>1, EXSessionAssumption DEF Init, IInv, TypeOK, OwnInv, OpenInv, Sending

\* One request moves: its new record decides.
LEMMA RequestStep ==
  ASSUME IInv, NEW r \in Requests,
         Begin(r) \/ Replies(r) \/ LoginFails(r) \/ Broken(r)
  PROVE  IInv'
<1>1. /\ req'[r] \in Request
      /\ req'[r].pc \in {"send", "send_again"} => req'[r].header \in Sessions
      /\ req'[r].pc = "send_again" => req'[r].own = req'[r].header
      /\ req'[r].pc # "idle" => req'[r].result = "none"
  <2>1. req[r].pc # "idle" => req[r].result = "none"
    BY DEF IInv, OwnInv
  <2>2. CASE Begin(r)
    BY <2>2, BeginMakes
  <2>3. CASE LoginGranted(r)
    BY <2>1, <2>3, GrantMakes DEF LoginGranted, LoggingIn
  <2>4. CASE Rejected(r)
    BY <2>1, <2>4, RejectMakes DEF Rejected, Sending
  <2>5. CASE LoginFails(r) \/ Answered(r) \/ Broken(r)
    BY <2>5, EndMakes
  <2> QED
    BY <2>2, <2>3, <2>4, <2>5 DEF Replies
<1>2. token' \in [Clients -> Sessions \cup {NoToken}] /\ live' \subseteq Sessions
  BY GrantMakes, EndMakes
  DEF Begin, Replies, Rejected, LoginFails, Answered, Broken, IInv, TypeOK
<1>3. req' \in [Requests -> Request]
  <2>1. \E j : req' = [req EXCEPT ![r] = j]
    BY DEF Begin, Replies, LoginGranted, Answered, Rejected, LoginFails, Broken, Becomes
  <2> QED
    BY <1>1, <2>1 DEF IInv, TypeOK
<1> QED
  BY <1>1, <1>2, <1>3, OthersRest DEF IInv, TypeOK, OwnInv, OpenInv, Sending

LEMMA Inductive == Spec => []IInv
<1>1. IInv /\ [Next]_vars => IInv'
  <2> SUFFICES ASSUME IInv, [Next]_vars PROVE IInv'
    OBVIOUS
  <2>1. ASSUME NEW s \in Sessions, SessionEnds(s)
        PROVE  IInv'
    BY <2>1, EXSessionAssumption
    DEF SessionEnds, Fault, IInv, TypeOK, OwnInv, OpenInv, Sending
  <2>2. ASSUME NEW c \in Clients, Reload(c)
        PROVE  IInv'
    BY <2>2, EXSessionAssumption
    DEF Reload, StillOpen, IInv, TypeOK, OwnInv, OpenInv, Sending
  <2>3. CASE UNCHANGED vars
    BY <2>3 DEF IInv, TypeOK, OwnInv, OpenInv, Sending
  <2> QED
    BY <2>1, <2>2, <2>3, RequestStep DEF Next
<1> QED
  BY InitHolds, <1>1, PTL DEF Spec

-------------------------------------------------------------------------------
\* Types, and no request goes out with None for a token (ex_client._request).
THEOREM TypeCorrect == Spec => []TypeOK
BY Inductive, PTL DEF IInv

\* A caller sees a 401 only for the session its own request logged in for,
\* whatever logins overlap and whichever sessions EX ends
\* (ex_client._request).
THEOREM UnauthorizedIsFinal == Spec => UnauthorizedOnlyAfterOwnLogin
<1>1. IInv /\ [Next]_vars =>
        [\A r \in Requests :
           Ends(r, "unauthorized") => /\ req[r].own \in Sessions
                                      /\ req[r].own = req[r].header
                                      /\ req[r].own \notin live]_vars
  <2> SUFFICES ASSUME IInv, Next, NEW r \in Requests, Ends(r, "unauthorized")
               PROVE  /\ req[r].own \in Sessions /\ req[r].own = req[r].header
                      /\ req[r].own \notin live
    BY DEF Ends
  <2>1. req'[r] # req[r]
    BY DEF Ends
  <2>2. PICK q \in Requests : Begin(q) \/ Replies(q) \/ LoginFails(q) \/ Broken(q)
    BY <2>1 DEF Next, SessionEnds, Reload
  <2>3. q = r
    BY <2>1, <2>2, OthersRest
  <2>4. Rejected(r)
    BY <2>2, <2>3, BeginMakes, GrantMakes, EndMakes DEF Replies, Ends
  <2>5. req[r].pc = "send_again" /\ req[r].header \notin live
    BY <2>4, RejectMakes DEF Ends
  <2> QED
    BY <2>5 DEF IInv, TypeOK, OwnInv, Sending
<1> QED
  BY <1>1, Inductive, PTL DEF Spec, UnauthorizedOnlyAfterOwnLogin

\* Only a request that a settings change overtook meets a closed client
\* (context.AppContext.reload).
THEOREM OnlyReplacedClientsAreClosed == Spec => ClosedOnlyIfReplaced
<1>1. IInv /\ [Next]_vars =>
        [\A r \in Requests :
           req'[r] # req[r] /\ req'[r].result = "closed"
             => req[r].pc # "idle" /\ req[r].client # ex]_vars
  <2> SUFFICES ASSUME IInv, Next, NEW r \in Requests,
                      req'[r] # req[r], req'[r].result = "closed"
               PROVE  req[r].pc # "idle" /\ req[r].client # ex
    OBVIOUS
  <2>1. PICK q \in Requests : Begin(q) \/ Replies(q) \/ LoginFails(q) \/ Broken(q)
    BY DEF Next, SessionEnds, Reload
  <2>2. q = r
    BY <2>1, OthersRest
  <2>3. CASE Begin(r)
    BY <2>3, BeginMakes
  <2>4. CASE LoginGranted(r)
    BY <2>4, GrantMakes DEF LoginGranted, LoggingIn, IInv, OpenInv, OwnInv
  <2>5. CASE Rejected(r)
    BY <2>5, RejectMakes DEF Rejected, Sending, IInv, OpenInv, OwnInv
  <2>6. CASE LoginFails(r) \/ Answered(r) \/ Broken(r)
    BY <2>6, EndMakes
  <2> QED
    BY <2>1, <2>2, <2>3, <2>4, <2>5, <2>6 DEF Replies
<1> QED
  BY <1>1, Inductive, PTL DEF Spec, ClosedOnlyIfReplaced
===============================================================================
