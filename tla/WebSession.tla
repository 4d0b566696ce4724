----------------------------- MODULE WebSession -----------------------------
(***************************************************************************)
(* The session of a browser: the pair of tokens kept in localStorage, the  *)
(* tabs that share it, and what POST /auth/refresh, /auth/logout and       *)
(* PATCH /auth/me do with it on the server (lib/api.ts,                    *)
(* auth/AuthContext.tsx, routers/auth.py).                                 *)
(*                                                                         *)
(* A pair is an access token and the refresh token issued with it; pairs   *)
(* are numbered in the order they are issued and 0 stands for "no token".  *)
(* Each tab runs one request at a time through the interceptors of         *)
(* lib/api.ts.  A page may be reloaded or closed at any moment, a request  *)
(* or its answer may be lost, and what a dead page had sent may still      *)
(* reach the server.                                                       *)
(***************************************************************************)
EXTENDS Naturals, FiniteSets

CONSTANTS
    Tabs,       \* pages of one browser
    Users,      \* people who sign in on it
    MaxPairs,   \* bound: how many pairs are ever issued
    MaxVersion, \* bound: how often a password changes
    WebLocks,   \* whether the browser has navigator.locks
    Nobody

ASSUME SessionAssumption ==
    /\ MaxPairs \in Nat \ {0}
    /\ MaxVersion \in Nat
    /\ WebLocks \in BOOLEAN
    /\ Nobody \notin Users
    /\ Users # {}

Pairs == 1..MaxPairs
NoPair == 0
MaybePair == 0..MaxPairs

VARIABLES
    store,    \* educa_token and educa_refresh_token
    tab,      \* what each page shows and the request it has under way
    lock,     \* the pages inside withRefreshLock
    pair,     \* refresh_sessions, one row per issued pair
    issued,   \* number of pairs issued so far
    version,  \* users.token_version
    strays,   \* pairs that a dead or impatient page had posted to /auth/refresh
    logouts,  \* pairs posted to /auth/logout; receiving one twice changes nothing
    lost      \* history: pairs posted to /auth/refresh with nobody left to hear

browser == <<store, tab, lock>>
server == <<pair, issued, version>>
network == <<strays, logouts>>
vars == <<browser, server, network, lost>>

Kinds == {"page", "restore", "login", "password"}
Stages == {"idle", "asked", "refused", "redeeming", "redeemed", "changed"}

Row == [user: Users \cup {Nobody}, ver: 0..MaxVersion,
        state: {"none", "live", "rotated", "revoked"}]

Page == [user: Users \cup {Nobody}, kind: Kinds, stage: Stages, token: MaybePair,
         entry: MaybePair, got: MaybePair, retried: BOOLEAN]

\* The variables hold values of their types.
TypeOK ==
    /\ store \in [access: MaybePair, refresh: MaybePair]
    /\ tab \in [Tabs -> Page]
    /\ lock \subseteq Tabs
    /\ pair \in [Pairs -> Row]
    /\ issued \in MaybePair
    /\ version \in [Users -> 0..MaxVersion]
    /\ strays \subseteq Pairs /\ logouts \subseteq Pairs
    /\ lost \subseteq Pairs

Empty == [access |-> NoPair, refresh |-> NoPair]
Both(p) == [access |-> p, refresh |-> p]

Quiet(u) == [user |-> u, kind |-> "page", stage |-> "idle", token |-> NoPair,
             entry |-> NoPair, got |-> NoPair, retried |-> FALSE]

(* Somebody signed in earlier and opened the app in every tab. *)
Init ==
    \E u \in Users :
        /\ store = Both(1)
        /\ tab = [t \in Tabs |-> Quiet(u)]
        /\ lock = {}
        /\ pair = [p \in Pairs |-> IF p = 1
                     THEN [user |-> u, ver |-> 0, state |-> "live"]
                     ELSE [user |-> Nobody, ver |-> 0, state |-> "none"]]
        /\ issued = 1
        /\ version = [v \in Users |-> 0]
        /\ strays = {} /\ logouts = {}
        /\ lost = {}

-----------------------------------------------------------------------------
(* The server. *)

Current(p) == pair[p].ver = version[pair[p].user]

(* get_current_user accepts an access token whose version is the user's,   *)
(* until it expires: it may have, whenever it is presented.                *)
Accepts(p) == p # NoPair /\ Current(p)

(* A slip: a row stamped with the version that is about to come. *)
NextVersion(u, ver) == [user |-> u, ver |-> ver + 1, state |-> "live"]

(* _issue_tokens: a new row, live, under the user's current version. *)
Fresh(u, ver) == [user |-> u, ver |-> ver, state |-> "live"]

(* What a sweep of the user's open sessions leaves. *)
Swept(rows, u) == [p \in Pairs |-> IF rows[p].user = u /\ rows[p].state = "live"
                                   THEN [rows[p] EXCEPT !.state = "revoked"]
                                   ELSE rows[p]]

(* refresh, on an open session: the pair presented is used up and another  *)
(* takes its place.                                                        *)
Rotate(p) ==
    /\ Current(p) /\ pair[p].state = "live" /\ issued < MaxPairs
    /\ pair' = [pair EXCEPT ![p].state = "rotated",
                            ![issued + 1] = Fresh(pair[p].user, pair[p].ver)]
    /\ issued' = issued + 1
    /\ UNCHANGED <<version>>

(* refresh, on a session that is no longer open: taken for the replay of a *)
(* stolen token, it closes every session of the user.                      *)
RaiseAlarm(p) ==
    /\ Current(p) /\ pair[p].state \in {"rotated", "revoked"}
    /\ pair' = Swept(pair, pair[p].user)
    /\ UNCHANGED <<issued, version>>

(* refresh, on a token of an older version: refused, and nothing else. *)
Refuse(p) == ~Current(p) /\ UNCHANGED server

-----------------------------------------------------------------------------
(* The interceptors. *)

(* The request interceptor puts the stored token on every request. *)
Send(t, kind, retried) ==
    [tab[t] EXCEPT !.kind = kind, !.stage = "asked", !.token = store.access,
                   !.entry = NoPair, !.got = NoPair, !.retried = retried]

Done(t) == Quiet(tab[t].user)

(* A page asks for something, the login form is sent, or a person who is   *)
(* signed in changes the password.                                         *)
Ask(t, kind) ==
    /\ tab[t].stage = "idle"
    /\ (kind = "login") <=> (tab[t].user = Nobody)
    /\ tab' = [tab EXCEPT ![t] = Send(t, kind, FALSE)]
    /\ UNCHANGED <<store, lock, server, network, lost>>

(* The answer is what was asked for; GET /auth/me says who is signed in.   *)
Answer(t) ==
    /\ tab[t].stage = "asked" /\ tab[t].kind \in {"page", "restore"}
    /\ Accepts(tab[t].token)
    /\ tab' = [tab EXCEPT ![t] = IF tab[t].kind = "restore"
                                 THEN Quiet(pair[tab[t].token].user) ELSE Done(t)]
    /\ UNCHANGED <<store, lock, server, network, lost>>

(* POST /auth/login with the right password: applySession stores the pair. *)
SignIn(t, u) ==
    /\ tab[t].stage = "asked" /\ tab[t].kind = "login"
    /\ issued < MaxPairs
    /\ pair' = [pair EXCEPT ![issued + 1] = Fresh(u, version[u])]
    /\ issued' = issued + 1
    /\ store' = Both(issued + 1)
    /\ tab' = [tab EXCEPT ![t] = Quiet(u)]
    /\ UNCHANGED <<lock, version, network, lost>>

(* PATCH /auth/me with a new password: every session of the user closes    *)
(* and a new pair comes back with the answer.                              *)
ChangePassword(t) ==
    LET u == pair[tab[t].token].user IN
    /\ tab[t].stage = "asked" /\ tab[t].kind = "password"
    /\ Accepts(tab[t].token)
    /\ issued < MaxPairs /\ version[u] < MaxVersion
    /\ version' = [version EXCEPT ![u] = @ + 1]
    /\ pair' = [Swept(pair, u) EXCEPT ![issued + 1] = Fresh(u, version[u] + 1)]
    /\ issued' = issued + 1
    /\ tab' = [tab EXCEPT ![t].stage = "changed", ![t].got = issued + 1]
    /\ UNCHANGED <<store, lock, network, lost>>

(* useUpdateMe keeps the pair that came with the answer. *)
StoreChanged(t) ==
    /\ tab[t].stage = "changed"
    /\ store' = Both(tab[t].got)
    /\ tab' = [tab EXCEPT ![t] = Done(t)]
    /\ UNCHANGED <<lock, server, network, lost>>

(* A 401, the first one of this request, for an expired or outdated token  *)
(* or a wrong password at sign-in: on to tryRefresh, which notes the       *)
(* refresh token it walked in with.                                        *)
Unauthorized(t) ==
    /\ tab[t].stage = "asked" /\ ~tab[t].retried
    /\ tab' = [tab EXCEPT ![t].stage = "refused", ![t].entry = store.refresh,
                          ![t].token = NoPair, ![t].retried = TRUE]
    /\ UNCHANGED <<store, lock, server, network, lost>>

(* The request fails for good: a second 401, no network, a server error,   *)
(* a wrong current password.  A failed GET /auth/me drops the tokens.      *)
Fail(t) ==
    /\ tab[t].stage = "asked"
    /\ tab' = [tab EXCEPT ![t] = Done(t)]
    /\ store' = IF tab[t].kind = "restore" THEN Empty ELSE store
    /\ UNCHANGED <<lock, server, network, lost>>

-----------------------------------------------------------------------------
(* tryRefresh, inside withRefreshLock. *)

(* navigator.locks is one lock for all the tabs; without it each tab only  *)
(* waits for itself.                                                       *)
LockFree(t) == IF WebLocks THEN lock = {} ELSE t \notin lock

(* A slip: the token read on entry is redeemed, whatever is stored by now. *)
TokenOnEntry(t) == tab[t].entry # NoPair

(* What tryRefresh checks inside the lock: the stored token is still the   *)
(* one it walked in with.                                                  *)
NotYetRotated(t) == store.refresh # NoPair /\ store.refresh = tab[t].entry

(* A slip: the lock is only given back when the refresh succeeds. *)
LeavesOnSuccess(t) == IF tab[t].got # NoPair THEN lock \ {t} ELSE lock

(* Leaving the lock, however the attempt ended. *)
Leaves(t) == lock \ {t}

(* "Refresh failed -- full logout": the tokens go and this page forgets    *)
(* who was signed in.                                                      *)
GiveUp(t) ==
    /\ store' = Empty
    /\ tab' = [tab EXCEPT ![t] = Quiet(Nobody)]
    /\ lock' = Leaves(t)

(* Whoever held the lock before has already rotated: use the new token. *)
UseRotated(t) ==
    /\ tab[t].stage = "refused" /\ LockFree(t)
    /\ store.refresh \notin {NoPair, tab[t].entry}
    /\ tab' = [tab EXCEPT ![t] = Send(t, tab[t].kind, TRUE)]
    /\ UNCHANGED <<store, lock, server, network, lost>>

NothingToRedeem(t) ==
    /\ tab[t].stage = "refused" /\ LockFree(t)
    /\ store.refresh = NoPair
    /\ GiveUp(t)
    /\ UNCHANGED <<server, network, lost>>

Redeem(t) ==
    /\ tab[t].stage = "refused" /\ LockFree(t)
    /\ NotYetRotated(t)
    /\ lock' = lock \cup {t}
    /\ tab' = [tab EXCEPT ![t].stage = "redeeming"]
    /\ UNCHANGED <<store, server, network, lost>>

(* POST /auth/refresh reaches the server. *)
ServeRefresh(t) ==
    LET p == tab[t].entry IN
    /\ tab[t].stage = "redeeming"
    /\ \/ Rotate(p) /\ tab' = [tab EXCEPT ![t].stage = "redeemed", ![t].got = issued + 1]
       \/ (RaiseAlarm(p) \/ Refuse(p)) /\ tab' = [tab EXCEPT ![t].stage = "redeemed"]
    /\ UNCHANGED <<store, lock, network, lost>>

(* Its answer reaches the page: the new pair is stored and the request is  *)
(* sent again, or the session is over.                                     *)
TakeRefreshed(t) ==
    LET p == tab[t].got IN
    /\ tab[t].stage = "redeemed"
    /\ \/ /\ p # NoPair
          /\ store' = Both(p)
          /\ tab' = [tab EXCEPT ![t].stage = "asked", ![t].token = p,
                                ![t].entry = NoPair, ![t].got = NoPair]
          /\ lock' = Leaves(t)
       \/ p = NoPair /\ GiveUp(t)
    /\ UNCHANGED <<server, network, lost>>

(* What is left of a refresh whose page no longer listens: the request may *)
(* never arrive, or be still on its way, or have been served.              *)
Abandon(t) ==
    \/ /\ tab[t].stage = "redeeming"
       /\ strays' = strays \cup {tab[t].entry}
       /\ lost' = lost \cup {tab[t].entry}
    \/ /\ tab[t].stage = "redeemed" /\ tab[t].got # NoPair
       /\ lost' = lost \cup {tab[t].entry}
       /\ UNCHANGED strays
    \/ /\ tab[t].stage # "redeemed" \/ tab[t].got = NoPair
       /\ UNCHANGED <<strays, lost>>

(* The refresh fails on the way: null, and the same full logout. *)
LoseRefresh(t) ==
    /\ tab[t].stage \in {"redeeming", "redeemed"}
    /\ Abandon(t)
    /\ GiveUp(t)
    /\ UNCHANGED <<server, logouts>>

(* A request nobody waits for reaches the server. *)
ServeStray(p) ==
    /\ p \in strays
    /\ strays' = strays \ {p}
    /\ Rotate(p) \/ RaiseAlarm(p) \/ Refuse(p)
    /\ UNCHANGED <<browser, logouts, lost>>

-----------------------------------------------------------------------------
(* The person and the clock. *)

(* logout: local and at once; the server is told without waiting for it.   *)
(* What the page had under way goes on.                                    *)
Logout(t) ==
    /\ tab[t].user # Nobody
    /\ store' = Empty
    /\ tab' = [tab EXCEPT ![t].user = Nobody]
    /\ logouts' = logouts \cup ({store.refresh} \ {NoPair})
    /\ UNCHANGED <<lock, server, strays, lost>>

(* POST /auth/logout revokes the session if it is still open. *)
ServeLogout(p) ==
    /\ p \in logouts /\ pair[p].state = "live"
    /\ pair' = [pair EXCEPT ![p].state = "revoked"]
    /\ UNCHANGED <<browser, issued, version, network, lost>>

(* The page is reloaded, or closed and opened again: the browser frees the *)
(* lock, and AuthProvider asks who is signed in if a token is stored.      *)
Reload(t) ==
    /\ Abandon(t)
    /\ lock' = lock \ {t}
    /\ tab' = [tab EXCEPT ![t] =
          IF store.access = NoPair THEN Quiet(Nobody)
          ELSE [Quiet(Nobody) EXCEPT !.kind = "restore", !.stage = "asked",
                                     !.token = store.access]]
    /\ UNCHANGED <<store, server, logouts>>

-----------------------------------------------------------------------------
Asks(t) == \E kind \in {"page", "login", "password"} : Ask(t, kind)

Settles(t) ==
    \/ Answer(t) \/ (\E u \in Users : SignIn(t, u)) \/ ChangePassword(t) \/ StoreChanged(t)
    \/ Unauthorized(t) \/ Fail(t)

Refreshes(t) ==
    \/ UseRotated(t) \/ NothingToRedeem(t) \/ Redeem(t)
    \/ ServeRefresh(t) \/ TakeRefreshed(t) \/ LoseRefresh(t)

Next ==
    \/ \E t \in Tabs : Asks(t) \/ Settles(t) \/ Refreshes(t) \/ Logout(t) \/ Reload(t)
    \/ \E p \in Pairs : ServeStray(p) \/ ServeLogout(p)

Spec == Init /\ [][Next]_vars

(* A request is answered or fails, and the browser grants the lock in the  *)
(* order it was asked for, so nobody waits for ever while it is free again *)
(* and again.                                                              *)
FairSpec ==
    /\ Spec
    /\ \A t \in Tabs :
        /\ WF_vars(Settles(t))
        /\ SF_vars(UseRotated(t) \/ NothingToRedeem(t) \/ Redeem(t))
        /\ WF_vars(ServeRefresh(t) \/ LoseRefresh(t))
        /\ WF_vars(TakeRefreshed(t) \/ LoseRefresh(t))

-----------------------------------------------------------------------------
(* The stored refresh token is one the server has not seen yet, unless the *)
(* page inside the lock is about to replace it or the answer that replaced *)
(* it was lost: withRefreshLock and the re-reading of tryRefresh keep two  *)
(* tabs from redeeming one token (lib/api.ts:38-78).                       *)
StoredPairIsFresh ==
    LET p == store.refresh IN
    p # NoPair /\ pair[p].state = "rotated" =>
        \/ p \in lost
        \/ \E t \in lock : tab[t].stage = "redeemed" /\ tab[t].entry = p

(* Two tabs never redeem one token: the refresh token a page presents has  *)
(* not been used up, unless the answer that replaced it was lost with the  *)
(* page or the connection.  So the server, which takes a second            *)
(* presentation for a theft and closes every session of the account, does  *)
(* not take the user's own tabs for the thief (lib/api.ts:29-37).          *)
NoFalseTheft ==
    \A t \in Tabs :
        tab[t].stage = "redeeming" /\ pair[tab[t].entry].state = "rotated"
            => tab[t].entry \in lost

(* A request that met a 401 does not wait for ever behind the refresh of   *)
(* another tab, even when that one fails or its page goes away: the lock   *)
(* always comes free (lib/api.ts:42-57).                                   *)
RefusedGetsItsTurn ==
    \A t \in Tabs : tab[t].stage = "refused" ~> tab[t].stage # "refused"
=============================================================================
