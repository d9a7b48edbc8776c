---------------------------- MODULE AuthSession ----------------------------
(***************************************************************************)
(* The stored Google session of a remote profile                           *)
(* (src/frontend/cli-go/internal/authsession).  Every command of the       *)
(* command line is a process of its own: `auth login` opens a loopback     *)
(* listener, waits for the browser, exchanges the code and stores the      *)
(* session; any command that calls the gateway resolves a bearer token and *)
(* refreshes the session when the cached ID token is about to expire;      *)
(* `auth logout` revokes and deletes.  Nothing locks the credential store: *)
(* commands read it, talk to Google and write it back, so they overlap.    *)
(***************************************************************************)
EXTENDS Integers, FiniteSets

CONSTANTS
    Cmds,        \* commands that may run at the same time
    MaxCmds,     \* bound: commands started in a behaviour
    MaxTime,     \* bound: ticks of the clock
    Life,        \* ticks an ID token is valid
    Window,      \* the refresh window, in ticks
    MaxFaults    \* bound: failures of Google, the browser or the store

VARIABLES
    store,       \* the session in the credential store, or NoSession
    honoured,    \* refresh tokens Google accepts
    issued,      \* number of refresh tokens Google has given out
    now,         \* the clock
    pc, op,      \* per command: where it is and what it does
    held,        \* per command: the session it read or is about to store
    resp,        \* per command: Google's last token response
    readAt,      \* per command: the time read before the refresh
    runs, faults,
    intent,      \* what the user last achieved: "none", "in" or "out"
    under,       \* commands that were under way when the last logout succeeded
    undone,      \* a refresh among them has stored its session again
    excuse       \* something happened that may cost the session

vars == <<store, honoured, issued, now, pc, op, held, resp, readAt, runs,
          faults, intent, under, undone, excuse>>

NoSession == [rt |-> 0, exp |-> 0]

\* A token response of Google: what its ID token is worth, the refresh token
\* (0 when it carries none), the ID token's expiry and nonce.
TokenResponse(id, rt, exp, nonce) == [id |-> id, rt |-> rt, exp |-> exp, nonce |-> nonce]

NoResp == TokenResponse("none", 0, 0, "none")

\* Commands under way other than p.
Others(p) == {q \in Cmds \ {p} : pc[q] # "idle"}

Fault == faults < MaxFaults /\ faults' = faults + 1
NoFault == UNCHANGED faults

Sessions == [rt : Nat, exp : Nat]
Responses == [id : {"none", "bad", "ok"}, rt : Nat, exp : Nat, nonce : Cmds \cup {"none"}]
Labels == {"idle", "wait", "exchange", "check", "refresh", "revalidate", "put", "drop",
           "revoke", "delete"}

\* The store, the clock and the commands.
TypeOK ==
    /\ store \in Sessions
    /\ honoured \in SUBSET (1..issued) /\ issued \in Nat /\ now \in 0..MaxTime
    /\ pc \in [Cmds -> Labels] /\ op \in [Cmds -> {"none", "login", "resolve", "logout"}]
    /\ held \in [Cmds -> Sessions] /\ resp \in [Cmds -> Responses]
    /\ readAt \in [Cmds -> 0..MaxTime]
    /\ runs \in 0..MaxCmds /\ faults \in 0..MaxFaults
    /\ intent \in {"none", "in", "out"} /\ excuse \in BOOLEAN
    /\ under \in SUBSET Cmds /\ undone \in BOOLEAN

Init ==
    /\ store = NoSession /\ honoured = {} /\ issued = 0 /\ now = 0
    /\ pc = [p \in Cmds |-> "idle"] /\ op = [p \in Cmds |-> "none"]
    /\ held = [p \in Cmds |-> NoSession] /\ resp = [p \in Cmds |-> NoResp]
    /\ readAt = [p \in Cmds |-> 0]
    /\ runs = 0 /\ faults = 0 /\ intent = "none" /\ excuse = FALSE
    /\ under = {} /\ undone = FALSE

-----------------------------------------------------------------------------
\* A command ends; what it held is gone with its process.
End(p) ==
    /\ pc' = [pc EXCEPT ![p] = "idle"] /\ op' = [op EXCEPT ![p] = "none"]
    /\ held' = [held EXCEPT ![p] = NoSession]
    /\ resp' = [resp EXCEPT ![p] = NoResp]
    /\ readAt' = [readAt EXCEPT ![p] = 0]

Step(p, l) == pc' = [pc EXCEPT ![p] = l] /\ UNCHANGED op

\* resolveEffectiveAuthToken and runAuth start a command.  A logout that
\* overlaps another command may revoke what that command stores; and a command
\* may lose its session to one acting on a refresh token Google no longer
\* honours, since the session is deleted by its key, whichever session that is:
\* excuses of SessionKept.
Begin(p, o, l) ==
    /\ pc[p] = "idle" /\ runs < MaxCmds /\ runs' = runs + 1
    /\ pc' = [pc EXCEPT ![p] = l] /\ op' = [op EXCEPT ![p] = o]
    /\ excuse' = (excuse \/ \E q \in Others(p) :
                    \/ "logout" \in {o, op[q]}
                    \/ \E s \in {store, held[q]} : s # NoSession /\ s.rt \notin honoured)
    /\ under' = under \ {p}
    /\ UNCHANGED <<store, honoured, issued, now, faults, undone>>

-----------------------------------------------------------------------------
\* Claims of an ID token are accepted: issuer and audience match, the token is
\* not expired at t, and the nonce is the demanded one unless none is demanded.
ValidateIDTokenClaims(r, nonce, t) ==
    /\ r.id = "ok" /\ r.exp > t
    /\ nonce # "none" => r.nonce = nonce

\* The cached ID token is missing, expired or about to expire.
ShouldRefresh(s, t) == ~ (s.exp > t + Window)

-----------------------------------------------------------------------------
\* LoginGoogle up to the wait for the browser: PKCE pair, state, nonce,
\* listener and authorization URL.
LoginStart(p) ==
    /\ Begin(p, "login", "wait")
    /\ intent' = IF intent = "out" THEN "none" ELSE intent
    /\ UNCHANGED <<held, resp, readAt>>

\* A callback is accepted when it has this login's state, no error and a code.
ValidateCallback(cb) == cb.state = "own" /\ ~ cb.error /\ cb.code

\* The browser calls back at the loopback listener, whose first request is the
\* callback: a code for this login, a denial, another login's state, no code.
Callback(p) ==
    /\ pc[p] = "wait"
    /\ \E cb \in [state : {"own", "other"}, error : BOOLEAN, code : BOOLEAN] :
          IF ValidateCallback(cb)
          THEN NoFault /\ Step(p, "exchange") /\ UNCHANGED <<held, resp, readAt>>
          ELSE Fault /\ End(p)
    /\ UNCHANGED <<store, honoured, issued, now, runs, intent, excuse, under, undone>>

\* ExchangeCode answers: both tokens; no refresh token; a token of bad claims;
\* or no answer.
ExchangeCode(p) ==
    /\ pc[p] = "exchange"
    /\ \/ /\ NoFault /\ issued' = issued + 1 /\ honoured' = honoured \cup {issued + 1}
          /\ resp' = [resp EXCEPT ![p] = 
                      TokenResponse("ok", issued + 1, now + Life, p)]
          /\ Step(p, "check") /\ UNCHANGED <<held, readAt>>
       \/ /\ Fault /\ UNCHANGED <<issued, honoured>>
          /\ \/ \E id \in {"ok", "bad"} :
                   resp' = [resp EXCEPT ![p] = TokenResponse(id, 0, now + Life, p)]
                /\ Step(p, "check") /\ UNCHANGED <<held, readAt>>
             \/ End(p)
    /\ UNCHANGED <<store, now, runs, intent, excuse, under, undone>>

\* The response is checked: an ID token, a refresh token, valid claims.
CheckLogin(p) ==
    /\ pc[p] = "check"
    /\ \/ /\ resp[p].id # "none" /\ resp[p].rt # 0
          /\ ValidateIDTokenClaims(resp[p], p, now)
          /\ held' = [held EXCEPT ![p] = [rt |-> resp[p].rt, exp |-> resp[p].exp]]
          /\ Step(p, "put") /\ UNCHANGED <<resp, readAt>>
       \/ /\ ~ (resp[p].id # "none" /\ resp[p].rt # 0
                /\ ValidateIDTokenClaims(resp[p], p, now))
          /\ End(p)
    /\ UNCHANGED <<store, honoured, issued, now, runs, faults, intent, excuse, under, undone>>

-----------------------------------------------------------------------------
\* ResolveBearerToken of a command reads the store: no session means a login is
\* required; a fresh ID token is handed out as it is (neither changes a thing,
\* nor does `auth status`), any other is refreshed.
ResolveStart(p) ==
    /\ store # NoSession /\ ShouldRefresh(store, now)
    /\ Begin(p, "resolve", "refresh")
    /\ held' = [held EXCEPT ![p] = store]
    /\ readAt' = [readAt EXCEPT ![p] = now]
    /\ UNCHANGED <<resp, intent>>

\* Google refreshes: a new ID token without a nonce, sometimes with a new
\* refresh token that replaces the old one; it refuses a token it no longer
\* honours; the request may fail on the way, or the ID token be of no use.
Refresh(p) ==
    /\ pc[p] = "refresh"
    /\ \/ /\ held[p].rt \in honoured /\ NoFault
          /\ \/ /\ resp' = [resp EXCEPT ![p] = 
                                TokenResponse("ok", 0, now + Life, "none")]
                /\ UNCHANGED <<honoured, issued, excuse>>
             \/ /\ issued' = issued + 1
                /\ honoured' = (honoured \ {held[p].rt}) \cup {issued + 1}
                /\ resp' = [resp EXCEPT ![p] = 
                                TokenResponse("ok", issued + 1, now + Life, "none")]
                /\ excuse' = (excuse \/ Others(p) # {})
          /\ Step(p, "revalidate")
       \/ /\ held[p].rt \notin honoured /\ NoFault
          /\ Step(p, "drop") /\ UNCHANGED <<resp, honoured, issued, excuse>>
       \/ /\ Fault /\ excuse' = TRUE /\ UNCHANGED <<honoured, issued>>
          /\ \/ Step(p, "drop") /\ UNCHANGED resp
             \/ \E id \in {"none", "bad"} :
                   /\ resp' = [resp EXCEPT ![p] = [NoResp EXCEPT !.id = id]]
                   /\ Step(p, "revalidate")
    /\ UNCHANGED <<store, now, held, readAt, runs, intent, under, undone>>

\* Mutant: the refresh token of the response is stored whatever it is.
RefreshedSession_Overwrite(s, r) == [rt |-> r.rt, exp |-> r.exp]

\* The session to store keeps its refresh token unless the response has one.
RefreshedSession(s, r) == [rt |-> IF r.rt # 0 THEN r.rt ELSE s.rt, exp |-> r.exp]

\* The refreshed ID token is checked against the time read before the refresh,
\* with no nonce demanded; any failure leads to the deletion of the session.
CheckRefresh(p) ==
    /\ pc[p] = "revalidate"
    /\ IF resp[p].id # "none" /\ ValidateIDTokenClaims(resp[p], "none", readAt[p])
       THEN /\ held' = [held EXCEPT ![p] = RefreshedSession(held[p], resp[p])]
            /\ Step(p, "put")
       ELSE Step(p, "drop") /\ UNCHANGED held
    /\ UNCHANGED <<store, honoured, issued, now, resp, readAt, runs, faults, intent, excuse, under, undone>>

\* deleteInvalidSession: whatever session is stored under the key is deleted.
DeleteInvalid(p) ==
    /\ pc[p] = "drop"
    /\ \/ NoFault /\ store' = NoSession
       \/ Fault /\ UNCHANGED store
    /\ End(p)
    /\ UNCHANGED <<honoured, issued, now, runs, intent, excuse, under, undone>>

\* The session is stored by a login or a refresh; a store that fails after
\* Google replaced the refresh token loses it.  A refresh does not look whether
\* the session it read is still there, so it stores one after a logout too.
PutSession(p) ==
    /\ pc[p] = "put"
    /\ \/ /\ NoFault /\ store' = held[p]
          /\ intent' = IF op[p] = "login" THEN "in" ELSE intent
          /\ undone' = (undone \/ (op[p] = "resolve" /\ intent = "out" /\ p \in under))
          /\ UNCHANGED excuse
       \/ /\ Fault /\ UNCHANGED <<store, intent, undone>>
          /\ excuse' = (excuse \/ (op[p] = "resolve" /\ resp[p].rt # 0))
    /\ End(p)
    /\ UNCHANGED <<honoured, issued, now, runs, under>>

-----------------------------------------------------------------------------
\* A logout has succeeded, while others are under way.
LoggedOut(p) == intent' = "out" /\ under' = Others(p) /\ undone' = FALSE

\* Logout reads the store: without a session it is done at once; with
\* --no-revoke it deletes directly.
LogoutStart(p) ==
    \/ /\ store # NoSession
       /\ \E l \in {"revoke", "delete"} : Begin(p, "logout", l)
       /\ held' = [held EXCEPT ![p] = store]
       /\ intent' = "none"
       /\ UNCHANGED <<resp, readAt>>
    \/ /\ store = NoSession
       /\ pc[p] = "idle" /\ runs < MaxCmds /\ runs' = runs + 1
       /\ LoggedOut(p)
       /\ UNCHANGED <<store, honoured, issued, now, pc, op, held, resp, readAt, faults, excuse>>

\* The refresh token is revoked at Google; a failure is only reported.
RevokeDone(p, revoked) ==
    /\ honoured' = IF revoked THEN honoured \ {held[p].rt} ELSE honoured
    /\ Step(p, "delete") /\ UNCHANGED <<held, resp, readAt, intent>>

Revoke(p) ==
    /\ pc[p] = "revoke"
    /\ \/ NoFault /\ RevokeDone(p, TRUE)
       \/ Fault /\ RevokeDone(p, FALSE)
    /\ UNCHANGED <<store, issued, now, runs, excuse, under, undone>>

\* The local session is deleted; only then has the logout succeeded.
DeleteSession(p) ==
    /\ pc[p] = "delete"
    /\ \/ NoFault /\ store' = NoSession /\ LoggedOut(p)
       \/ Fault /\ UNCHANGED <<store, intent, under, undone>>
    /\ End(p)
    /\ UNCHANGED <<honoured, issued, now, runs, excuse>>

\* The user interrupts a command; a replaced refresh token dies with it.
Interrupt(p) ==
    /\ pc[p] # "idle" /\ Fault /\ End(p)
    /\ excuse' = (excuse \/ (op[p] = "resolve" /\ resp[p].rt # 0))
    /\ UNCHANGED <<store, honoured, issued, now, runs, intent, under, undone>>

Tick ==
    /\ now < MaxTime /\ now' = now + 1
    /\ UNCHANGED <<store, honoured, issued, pc, op, held, resp, readAt, runs, faults,
                   intent, excuse, under, undone>>

Next ==
    \/ Tick
    \/ \E p \in Cmds :
          \/ LoginStart(p) \/ Callback(p) \/ ExchangeCode(p) \/ CheckLogin(p)
          \/ ResolveStart(p) \/ Refresh(p) \/ CheckRefresh(p) \/ DeleteInvalid(p)
          \/ PutSession(p) \/ LogoutStart(p) \/ Revoke(p) \/ DeleteSession(p)
          \/ Interrupt(p)

Spec == Init /\ [][Next]_vars

-----------------------------------------------------------------------------
\* Once a login succeeded, the store keeps a session with a refresh token
\* Google honours, through any overlap of refreshes and further logins, unless
\* Google or the store fails, a logout overlaps, or commands overlap while one
\* of them acts on a refresh token Google has replaced or revoked.  (Between the refresh
\* and the store of a replaced token, the refreshing command holds it.)
SessionKept ==
    intent = "in" /\ ~ excuse =>
        /\ store # NoSession
        /\ \/ store.rt \in honoured
           \/ \E p \in Cmds : op[p] = "resolve" /\ resp[p].rt \in honoured

\* A logout that reported success leaves no session in the store until the next
\* login, whatever fails, whether or not Google could be told, and whichever
\* commands begin later or were under way, except that a refresh under way when
\* the logout succeeded may still store its session (Logout, ResolveBearerToken).
LogoutSticks == intent = "out" => store = NoSession \/ undone

\* Where a command is tells what it does and what it holds.
Shaped(p) ==
    /\ readAt[p] <= now
    /\ pc[p] = "idle" => op[p] = "none"
    /\ pc[p] \in {"wait", "exchange", "check"} => op[p] = "login"
    /\ pc[p] \in {"refresh", "revalidate", "drop"} => op[p] = "resolve"
    /\ pc[p] = "put" => op[p] \in {"login", "resolve"}
    /\ pc[p] \in {"revoke", "delete"} => op[p] = "logout"
    /\ pc[p] \in {"idle", "wait", "exchange", "check"} => held[p] = NoSession
    /\ pc[p] \in {"idle", "wait", "exchange", "refresh", "revoke", "delete"} => resp[p] = NoResp
    /\ op[p] \in {"resolve", "logout"} \/ pc[p] = "put" => held[p].rt # 0

\* After a logout, every refresh under way was so when it succeeded, because without
\* a session none begins.
LoggedOutInv ==
    intent = "out" /\ ~ undone =>
        store = NoSession /\ \A p \in Cmds : op[p] = "resolve" => p \in under

\* What keeps SessionKept: a logout runs alone; commands overlap only on
\* refresh tokens Google honours; what a command is about to store is honoured; a
\* session is dropped only when its token is not, and never one the user relies on.
Usable(s) == s = NoSession \/ s.rt \in honoured

LogoutAlone(p) ==
    op[p] = "logout" =>
        intent = "none" /\ held[p] = store /\ \A q \in Cmds : q # p => pc[q] = "idle"

OverlapUsable(p, q) ==
    p # q /\ pc[p] # "idle" /\ pc[q] # "idle" => Usable(store) /\ Usable(held[p])

TokensHonoured(p) ==
    /\ pc[p] = "check" => resp[p].rt \in honoured \cup {0}
    /\ pc[p] = "put" => held[p].rt \in honoured
    /\ pc[p] = "revalidate" =>
         /\ resp[p].id = "ok" /\ resp[p].exp > readAt[p]
         /\ IF resp[p].rt = 0 THEN held[p].rt \in honoured ELSE resp[p].rt \in honoured
    /\ pc[p] = "drop" => held[p].rt \notin honoured /\ intent # "in"
    /\ pc[p] = "refresh" /\ intent = "in" => held[p].rt \in honoured

Guarded ==
    /\ \A p \in Cmds : LogoutAlone(p) /\ TokensHonoured(p)
    /\ \A p, q \in Cmds : OverlapUsable(p, q)
    /\ SessionKept

IInv ==
    /\ TypeOK /\ (store = NoSession \/ store.rt # 0) /\ LoggedOutInv
    /\ \A p \in Cmds : Shaped(p)
    /\ ~ excuse => Guarded
=============================================================================
