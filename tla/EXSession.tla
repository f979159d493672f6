------------------------------ MODULE EXSession ------------------------------
(***************************************************************************)
(* ex_client.EXClient: the session token, logins that overlap, the one     *)
(* retry after a 401; and context.AppContext.reload, which replaces the    *)
(* client under the requests in flight.                                    *)
(*                                                                         *)
(* A request is a coroutine in _request.  An action is what runs when its  *)
(* answer arrives, up to the next wait.  EX may end a session at any time  *)
(* (idle timeout, restart, logout elsewhere), and knows nothing of which   *)
(* request uses which.  Sessions and clients are recycled once nothing     *)
(* refers to them, so that behaviours need no end.                         *)
(***************************************************************************)
EXTENDS Integers

CONSTANTS
  Requests,    \* coroutines that may have a request in flight
  Clients,     \* EXClient objects: the engine's, and replaced ones
  Sessions,    \* session tokens EX may hand out
  NoToken,     \* _token is None
  MaxFaults,   \* ended sessions, failed logins, broken connections
  MaxReloads   \* settings saved while the process runs

ASSUME EXSessionAssumption ==
  /\ NoToken \notin Sessions
  /\ MaxFaults \in Nat
  /\ MaxReloads \in Nat
  /\ Clients # {}

VARIABLES
  ex,       \* engine.ex
  open,     \* clients whose httpx client is not closed
  token,    \* _token of each client
  req,      \* the request of each coroutine
  live,     \* sessions EX accepts
  faults, reloads

vars == <<ex, open, token, req, live, faults, reloads>>

Waits == { "login", "send", "login_again", "send_again" }
Results == { "none", "answer", "auth_error", "unauthorized", "broken", "closed" }

Request == [ pc : Waits \cup {"idle"},
             client : Clients,
             header : Sessions \cup {NoToken},   \* headers[TOKEN_HEADER]
             own : Sessions \cup {NoToken},      \* what its own login returned
             result : Results ]                  \* how the last request ended

Init ==
  /\ ex \in Clients
  /\ open = {ex}
  /\ token = [c \in Clients |-> NoToken]
  /\ req = [r \in Requests |-> [pc |-> "idle", client |-> ex, header |-> NoToken,
                                own |-> NoToken, result |-> "none"]]
  /\ live = {}
  /\ faults = MaxFaults
  /\ reloads = MaxReloads

Fault == faults > 0 /\ faults' = faults - 1

-------------------------------------------------------------------------------
(* _request *)

Ended(j, result) == [j EXCEPT !.pc = "idle", !.header = NoToken,
                              !.own = NoToken, !.result = result]

\* What a request does next on its httpx client, which refuses once closed.
Goes(j, pc) == IF j.client \in open THEN [j EXCEPT !.pc = pc]
                                    ELSE Ended(j, "closed")

Becomes(r, j) == req' = [req EXCEPT ![r] = j]

LoggingIn(r) == req[r].pc \in {"login", "login_again"}
Sending(r) == req[r].pc \in {"send", "send_again"}

\* (mutant) no second login while one is under way
FirstWaitNoSecondLogin ==
  IF token[ex] = NoToken /\ \A r \in Requests : ~LoggingIn(r)
  THEN "login" ELSE "send"

FirstWait == IF token[ex] = NoToken THEN "login" ELSE "send"

Begin(r) ==
  LET j == [req[r] EXCEPT !.client = ex, !.header = token[ex], !.result = "none"]
  IN  /\ req[r].pc = "idle"
      /\ Becomes(r, Goes(j, FirstWait))
      /\ UNCHANGED <<ex, open, token, live, faults, reloads>>

Referred == {token[c] : c \in Clients} \cup {req[r].header : r \in Requests}
Unused == Sessions \ Referred

\* (mutant) the token is used for this request but not kept
KeptForThisOnly(c, s) == token

Kept(c, s) == [token EXCEPT ![c] = s]

\* (mutant) the retry goes out with the headers of the first attempt
StaleHeader(j, s) == IF j.header = NoToken THEN s ELSE j.header

HeaderAfterLogin(j, s) == s

\* _login returned: the token is kept, and the request goes out with it.
LoginGranted(r) ==
  LET s == CHOOSE s \in Unused : TRUE
      j == [req[r] EXCEPT !.header = HeaderAfterLogin(req[r], s), !.own = s]
  IN  /\ LoggingIn(r)
      /\ Unused # {}
      /\ live' = (live \cap Referred) \cup {s}
      /\ token' = Kept(j.client, s)
      /\ Becomes(r, Goes(j, IF j.pc = "login" THEN "send" ELSE "send_again"))
      /\ UNCHANGED <<ex, open, faults, reloads>>

\* A status other than 200 leaves the token; a reply without one clears it.
LoginFails(r) ==
  /\ LoggingIn(r)
  /\ Fault
  /\ \/ UNCHANGED token
     \/ token' = [token EXCEPT ![req[r].client] = NoToken]
  /\ Becomes(r, Ended(req[r], "auth_error"))
  /\ UNCHANGED <<ex, open, live, reloads>>

\* Any status but 401: the caller gets the response or an EXApiError.
Answered(r) ==
  /\ Sending(r)
  /\ req[r].header \in live
  /\ Becomes(r, Ended(req[r], "answer"))
  /\ UNCHANGED <<ex, open, token, live, faults, reloads>>

\* (mutant) after the login, retry for as long as EX says 401
RetriedForever(j) ==
  IF j.pc = "send" THEN Goes(j, "login_again") ELSE Goes(j, "send_again")

Retried(j) ==
  IF j.pc = "send" THEN Goes(j, "login_again") ELSE Ended(j, "unauthorized")

Rejected(r) ==
  /\ Sending(r)
  /\ req[r].header \notin live
  /\ Becomes(r, Retried(req[r]))
  /\ UNCHANGED <<ex, open, token, live, faults, reloads>>

\* A timeout, or a connection that breaks or was closed by aclose().
Broken(r) ==
  /\ req[r].pc # "idle"
  /\ IF req[r].client \in open THEN Fault ELSE UNCHANGED faults
  /\ Becomes(r, Ended(req[r], "broken"))
  /\ UNCHANGED <<ex, open, token, live, reloads>>

-------------------------------------------------------------------------------
(* EX, and a settings change *)

SessionEnds(s) ==
  /\ s \in live \cap Referred
  /\ Fault
  /\ live' = live \ {s}
  /\ UNCHANGED <<ex, open, token, req, reloads>>

\* (mutant) the client closed is the one just installed
ClosesNew(new) == open \ {new}

StillOpen(new) == (open \ {ex}) \cup {new}

\* reload() up to its only wait: a new client takes over, then the old one
\* refuses further requests.  Nothing waits for those in flight.
Reload(new) ==
  /\ new \notin open
  /\ \A r \in Requests : req[r].pc # "idle" => req[r].client # new
  /\ reloads > 0
  /\ reloads' = reloads - 1
  /\ ex' = new
  /\ open' = StillOpen(new)
  /\ token' = [token EXCEPT ![new] = NoToken]
  /\ UNCHANGED <<req, live, faults>>

Replies(r) == LoginGranted(r) \/ Answered(r) \/ Rejected(r)

Next ==
  \/ \E r \in Requests : Begin(r) \/ Replies(r) \/ LoginFails(r) \/ Broken(r)
  \/ \E s \in Sessions : SessionEnds(s)
  \/ \E c \in Clients : Reload(c)

Spec == Init /\ [][Next]_vars

\* EX answers, or the request times out.
FairSpec == Spec /\ \A r \in Requests : WF_vars(Replies(r) \/ Broken(r))

-------------------------------------------------------------------------------
\* Types; and what goes to EX always carries a session token, never None.
TypeOK ==
  /\ ex \in Clients
  /\ open \subseteq Clients
  /\ token \in [Clients -> Sessions \cup {NoToken}]
  /\ req \in [Requests -> Request]
  /\ \A r \in Requests : Sending(r) => req[r].header \in Sessions
  /\ live \subseteq Sessions
  /\ faults \in 0 .. MaxFaults
  /\ reloads \in 0 .. MaxReloads

Ends(r, result) == /\ req[r].pc # "idle"
                   /\ req'[r].pc = "idle"
                   /\ req'[r].result = result

\* A caller sees a 401 only if EX refused the very session this request had
\* logged in for: never because of a token that expired before, or that
\* another request got, replaced or lost meanwhile.
UnauthorizedOnlyAfterOwnLogin ==
  [][\A r \in Requests :
       Ends(r, "unauthorized") => /\ req[r].own \in Sessions
                                  /\ req[r].own = req[r].header
                                  /\ req[r].own \notin live]_vars

\* A request is refused by a closed client only if it began before a settings
\* change replaced that client: the client that requests start on is open.
ClosedOnlyIfReplaced ==
  [][\A r \in Requests :
       req'[r] # req[r] /\ req'[r].result = "closed"
         => req[r].pc # "idle" /\ req[r].client # ex]_vars

\* Every request ends, however often EX refuses it: one retry and no more.
RequestsEnd == \A r \in Requests : (req[r].pc # "idle") ~> (req[r].pc = "idle")

\* Once EX stops ending sessions and settings rest, requests stop logging in,
\* although overlapping logins overwrite each other's tokens.
LoginsSettle == <>[](\A r \in Requests : ~LoggingIn(r))
===============================================================================
