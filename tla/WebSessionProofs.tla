-------------------------- MODULE WebSessionProofs --------------------------
(***************************************************************************)
(* Where the browser has locks, however many tabs it has: no tab presents  *)
(* a refresh token that was used up.  The invariant says who knows which   *)
(* pair.  One page at most is inside the lock; what it presented there is  *)
(* the stored token until the answer is stored; the pair of an answer is   *)
(* known to nobody else before; and what a page that went away had sent is *)
(* remembered as lost.                                                     *)
(***************************************************************************)
EXTENDS WebSession, TLAPS

InLock == {"redeeming", "redeemed"}

(* What a page holds of the pairs: none is above the last one issued.      *)
Referred ==
    /\ store.access <= issued /\ store.refresh <= issued
    /\ \A t \in Tabs :
          tab[t].token <= issued /\ tab[t].entry <= issued /\ tab[t].got <= issued
    /\ \A p \in strays : p <= issued

Owned == \A p \in Pairs : p <= issued => pair[p].user \in Users

Locked ==
    \A t \in Tabs : tab[t].stage \in InLock => t \in lock /\ tab[t].entry # NoPair

OneInside == \A t, u \in lock : t = u

(* The pair that came with an answer is known to that page only. *)
Private ==
    \A t \in Tabs : tab[t].got # NoPair =>
        /\ store.refresh # tab[t].got
        /\ tab[t].got \notin strays
        /\ pair[tab[t].got].state # "rotated"
        /\ \A u \in Tabs : tab[u].entry # tab[t].got
        /\ \A u \in Tabs : u # t => tab[u].got # tab[t].got

BeingReplaced(p) ==
    \E t \in Tabs : tab[t].stage = "redeemed" /\ tab[t].entry = p /\ tab[t].got # NoPair

StoredIsFresh ==
    store.refresh # NoPair /\ pair[store.refresh].state = "rotated" =>
        store.refresh \in lost \/ BeingReplaced(store.refresh)

StraysAreLost == strays \subseteq lost

IInv == TypeOK /\ Referred /\ Owned /\ Locked /\ OneInside /\ Private /\ StoredIsFresh
        /\ StraysAreLost /\ NoFalseTheft


(* A page that signs in or out, or has nothing under way. *)
LEMMA QuietIsPage == \A u \in Users \cup {Nobody} : Quiet(u) \in Page
BY SessionAssumption DEF Quiet, Page, Kinds, Stages, MaybePair, NoPair

(* A sweep closes sessions and touches nothing else of them. *)
LEMMA SweepOnlyCloses ==
    ASSUME pair \in [Pairs -> Row], NEW u
    PROVE  /\ Swept(pair, u) \in [Pairs -> Row]
           /\ \A p \in Pairs :
                 /\ Swept(pair, u)[p].user = pair[p].user
                 /\ Swept(pair, u)[p].state = "rotated" <=> pair[p].state = "rotated"
BY DEF Swept, Row

(* What a refresh token that reaches the server does to the sessions: one  *)
(* more pair, perhaps, and no pair but the one presented is used up.       *)
ServedToken(p) ==
    /\ pair' \in [Pairs -> Row] /\ version' = version
    /\ issued' \in MaybePair /\ issued <= issued'
    /\ \A q \in Pairs : q <= issued => pair'[q].user = pair[q].user
    /\ \A q \in Pairs : pair'[q].state = "rotated" => pair[q].state = "rotated" \/ q = p

LEMMA AlarmServes ==
    ASSUME TypeOK, NEW p \in Pairs, RaiseAlarm(p) \/ Refuse(p)
    PROVE  ServedToken(p) /\ issued' = issued
<1>1. CASE RaiseAlarm(p)
    BY <1>1, SweepOnlyCloses DEF RaiseAlarm, ServedToken, TypeOK, MaybePair, Pairs
<1>2. CASE Refuse(p)
    BY <1>2 DEF Refuse, server, ServedToken, TypeOK, MaybePair, Pairs
<1> QED BY <1>1, <1>2

LEMMA RotateServes ==
    ASSUME TypeOK, Owned, NEW p \in Pairs, p <= issued, Rotate(p)
    PROVE  /\ ServedToken(p)
           /\ issued' = issued + 1 /\ issued' \in Pairs
           /\ pair'[issued'].user \in Users /\ pair'[issued'].state = "live"
<1>1. issued + 1 \in Pairs /\ issued \in Nat /\ p # issued + 1
    BY SessionAssumption DEF Rotate, TypeOK, MaybePair, Pairs
<1>2. Fresh(pair[p].user, pair[p].ver) \in Row
    BY DEF Fresh, TypeOK, Row
<1>3. [pair[p] EXCEPT !.state = "rotated"] \in Row
    BY DEF TypeOK, Row
<1>4. pair' \in [Pairs -> Row]
    BY <1>1, <1>2, <1>3 DEF Rotate, TypeOK
<1>5. \A q \in Pairs : q # p /\ q # issued + 1 => pair'[q] = pair[q]
    BY DEF Rotate, TypeOK
<1>6. pair'[issued + 1] = Fresh(pair[p].user, pair[p].ver)
    BY <1>1 DEF Rotate, TypeOK
<1>7. pair'[p].user = pair[p].user
    BY <1>1 DEF Rotate, TypeOK, Row
<1>8. issued' = issued + 1 /\ version' = version
    BY DEF Rotate
<1>9. pair[p].user \in Users
    BY DEF Owned
<1>10. \A q \in Pairs : q <= issued => pair'[q].user = pair[q].user
    BY <1>1, <1>5, <1>7
<1>11. \A q \in Pairs : pair'[q].state = "rotated" => pair[q].state = "rotated" \/ q = p
    BY <1>1, <1>5, <1>6 DEF Fresh
<1> QED BY <1>1, <1>4, <1>6, <1>8, <1>9, <1>10, <1>11 DEF ServedToken, Fresh, MaybePair, Pairs

(* A pair is a number, and one that was issued unless it is none. *)
LEMMA PairsAreNumbers ==
    /\ NoPair \in MaybePair
    /\ \A p \in MaybePair : p \in Nat /\ (p # NoPair => p \in Pairs)
    /\ \A p \in Pairs : p \in MaybePair /\ p # NoPair
BY SessionAssumption DEF NoPair, MaybePair, Pairs

LEMMA SendIsPage ==
    ASSUME TypeOK, NEW t \in Tabs, NEW kind \in Kinds, NEW retried \in BOOLEAN
    PROVE  Send(t, kind, retried) \in Page
<1>1. store.access \in MaybePair /\ tab[t] \in Page
    BY DEF TypeOK
<1> QED BY <1>1, PairsAreNumbers DEF Send, Page, Stages

LEMMA PairsAreStored ==
    \A p \in MaybePair : Both(p) \in [access: MaybePair, refresh: MaybePair]
                         /\ Empty \in [access: MaybePair, refresh: MaybePair]
BY PairsAreNumbers DEF Both, Empty

(* A page that goes away leaves behind only what it had presented.         *)
LEMMA AbandonKeeps ==
    ASSUME TypeOK, Locked, NEW t \in Tabs, Abandon(t)
    PROVE  /\ strays' \subseteq Pairs /\ lost' \subseteq Pairs
           /\ lost \subseteq lost'
           /\ strays' \subseteq strays \cup {tab[t].entry}
           /\ strays' \ strays \subseteq lost'
           /\ tab[t].stage = "redeemed" /\ tab[t].got # NoPair => tab[t].entry \in lost'
<1>1. tab[t].stage \in InLock => tab[t].entry \in Pairs
    BY PairsAreNumbers DEF TypeOK, Locked, Page
<1>2. strays \subseteq Pairs /\ lost \subseteq Pairs
    BY DEF TypeOK
<1>3. CASE tab[t].stage = "redeeming" /\ strays' = strays \cup {tab[t].entry}
           /\ lost' = lost \cup {tab[t].entry}
    BY <1>1, <1>2, <1>3 DEF InLock
<1>4. CASE tab[t].stage = "redeemed" /\ lost' = lost \cup {tab[t].entry} /\ strays' = strays
    BY <1>1, <1>2, <1>4 DEF InLock
<1>5. CASE (tab[t].stage # "redeemed" \/ tab[t].got = NoPair) /\ strays' = strays /\ lost' = lost
    BY <1>2, <1>5
<1> QED BY <1>3, <1>4, <1>5 DEF Abandon

(* A page asks for something. *)
LEMMA AskKeeps ==
    ASSUME IInv, NEW t \in Tabs, NEW kind \in Kinds, Ask(t, kind)
    PROVE  IInv'
<1>1. TypeOK'
    <2>1. Send(t, kind, FALSE) \in Page
        BY SendIsPage DEF IInv
    <2> QED BY <2>1 DEF IInv, TypeOK, Ask, server, network
<1>2. Referred'
    BY SessionAssumption DEF IInv, TypeOK, Pairs, MaybePair, NoPair, Row, Page, Kinds,
           Stages, Referred, Locked, InLock, Ask, Send, server, network
<1>3. Owned'
    BY SessionAssumption DEF IInv, TypeOK, Pairs, MaybePair, NoPair, Row, Page, Kinds,
           Stages, Referred, Owned, Ask, Send, server, network
<1>4. Locked'
    BY SessionAssumption DEF IInv, TypeOK, Pairs, MaybePair, NoPair, Row, Page, Kinds,
           Stages, Locked, InLock, Ask, Send, server, network
<1>5. OneInside'
    BY SessionAssumption DEF IInv, TypeOK, Pairs, MaybePair, NoPair, Row, Page, Kinds,
           Stages, OneInside, Locked, InLock, Ask, Send, server, network
<1>6. Private'
    BY SessionAssumption DEF IInv, TypeOK, Pairs, MaybePair, NoPair, Row, Page, Kinds,
           Stages, Private, Referred, Locked, InLock, Ask, Send, server, network
<1>7. StoredIsFresh'
    BY SessionAssumption DEF IInv, TypeOK, Pairs, MaybePair, NoPair, Row, Page, Kinds,
           Stages, StoredIsFresh, BeingReplaced, Private, Referred, Locked, InLock, NoFalseTheft,
           Ask, Send, server, network
<1>8. StraysAreLost'
    BY SessionAssumption DEF IInv, TypeOK, Pairs, MaybePair, NoPair, Row, Page, Kinds,
           Stages, StraysAreLost, Ask, Send, server, network
<1>9. NoFalseTheft'
    BY SessionAssumption DEF IInv, TypeOK, Pairs, MaybePair, NoPair, Row, Page, Kinds,
           Stages, NoFalseTheft, Locked, InLock, OneInside, StoredIsFresh, BeingReplaced,
           StraysAreLost, Ask, Send, server, network
<1> QED BY <1>1, <1>2, <1>3, <1>4, <1>5, <1>6, <1>7, <1>8, <1>9 DEF IInv

(* It is answered. *)
LEMMA AnswerKeeps ==
    ASSUME IInv, NEW t \in Tabs, Answer(t)
    PROVE  IInv'
<1>1. TypeOK'
    <2>1. tab[t].token \in Pairs
        BY DEF IInv, TypeOK, Page, Answer, Accepts, MaybePair, Pairs, NoPair
    <2>2. pair[tab[t].token].user \in Users \cup {Nobody} /\ tab[t].user \in Users \cup {Nobody}
        BY <2>1 DEF IInv, TypeOK, Row, Page
    <2>3. Quiet(pair[tab[t].token].user) \in Page /\ Done(t) \in Page
        BY <2>2, QuietIsPage DEF Done
    <2> QED BY <2>3 DEF IInv, TypeOK, Answer, server, network
<1>2. Referred'
    BY SessionAssumption DEF IInv, TypeOK, Pairs, MaybePair, NoPair, Row, Page, Kinds,
           Stages, Referred, Locked, InLock, Answer, Accepts, Done, Quiet, server, network
<1>3. Owned'
    BY SessionAssumption DEF IInv, TypeOK, Pairs, MaybePair, NoPair, Row, Page, Kinds,
           Stages, Referred, Owned, Answer, Accepts, Done, Quiet, server, network
<1>4. Locked'
    BY SessionAssumption DEF IInv, TypeOK, Pairs, MaybePair, NoPair, Row, Page, Kinds,
           Stages, Locked, InLock, Answer, Accepts, Done, Quiet, server, network
<1>5. OneInside'
    BY SessionAssumption DEF IInv, TypeOK, Pairs, MaybePair, NoPair, Row, Page, Kinds,
           Stages, OneInside, Locked, InLock, Answer, Accepts, Done, Quiet, server, network
<1>6. Private'
    BY SessionAssumption DEF IInv, TypeOK, Pairs, MaybePair, NoPair, Row, Page, Kinds,
           Stages, Private, Referred, Locked, InLock, Answer, Accepts, Done, Quiet, server, network
<1>7. StoredIsFresh'
    BY SessionAssumption DEF IInv, TypeOK, Pairs, MaybePair, NoPair, Row, Page, Kinds,
           Stages, StoredIsFresh, BeingReplaced, Private, Referred, Locked, InLock, NoFalseTheft,
           Answer, Accepts, Done, Quiet, server, network
<1>8. StraysAreLost'
    BY SessionAssumption DEF IInv, TypeOK, Pairs, MaybePair, NoPair, Row, Page, Kinds,
           Stages, StraysAreLost, Answer, Accepts, Done, Quiet, server, network
<1>9. NoFalseTheft'
    BY SessionAssumption DEF IInv, TypeOK, Pairs, MaybePair, NoPair, Row, Page, Kinds,
           Stages, NoFalseTheft, Locked, InLock, OneInside, StoredIsFresh, BeingReplaced,
           StraysAreLost, Answer, Accepts, Done, Quiet, server, network
<1> QED BY <1>1, <1>2, <1>3, <1>4, <1>5, <1>6, <1>7, <1>8, <1>9 DEF IInv

(* Somebody signs in: the pair is new to everybody. *)
LEMMA SignInKeeps ==
    ASSUME IInv, NEW t \in Tabs, NEW u \in Users, SignIn(t, u)
    PROVE  IInv'
<1>1. TypeOK'
    BY SessionAssumption DEF IInv, TypeOK, Pairs, MaybePair, NoPair, Row, Page, Kinds,
           Stages, Referred, Owned, Locked, InLock, SignIn, Fresh, Both, Quiet, network
<1>2. Referred'
    BY SessionAssumption DEF IInv, TypeOK, Pairs, MaybePair, NoPair, Row, Page, Kinds,
           Stages, Referred, Locked, InLock, SignIn, Fresh, Both, Quiet, network
<1>3. Owned'
    BY SessionAssumption DEF IInv, TypeOK, Pairs, MaybePair, NoPair, Row, Page, Kinds,
           Stages, Referred, Owned, SignIn, Fresh, Both, Quiet, network
<1>4. Locked'
    BY SessionAssumption DEF IInv, TypeOK, Pairs, MaybePair, NoPair, Row, Page, Kinds,
           Stages, Locked, InLock, SignIn, Fresh, Both, Quiet, network
<1>5. OneInside'
    BY SessionAssumption DEF IInv, TypeOK, Pairs, MaybePair, NoPair, Row, Page, Kinds,
           Stages, OneInside, Locked, InLock, SignIn, Fresh, Both, Quiet, network
<1>6. Private'
    BY SessionAssumption DEF IInv, TypeOK, Pairs, MaybePair, NoPair, Row, Page, Kinds,
           Stages, Private, Referred, Locked, InLock, SignIn, Fresh, Both, Quiet, network
<1>7. StoredIsFresh'
    BY SessionAssumption DEF IInv, TypeOK, Pairs, MaybePair, NoPair, Row, Page, Kinds,
           Stages, StoredIsFresh, BeingReplaced, Private, Referred, Locked, InLock, NoFalseTheft,
           SignIn, Fresh, Both, Quiet, network
<1>8. StraysAreLost'
    BY SessionAssumption DEF IInv, TypeOK, Pairs, MaybePair, NoPair, Row, Page, Kinds,
           Stages, StraysAreLost, SignIn, Fresh, Both, Quiet, network
<1>9. NoFalseTheft'
    BY SessionAssumption DEF IInv, TypeOK, Pairs, MaybePair, NoPair, Row, Page, Kinds,
           Stages, NoFalseTheft, Locked, InLock, OneInside, StoredIsFresh, BeingReplaced,
           StraysAreLost, SignIn, Fresh, Both, Quiet, network
<1> QED BY <1>1, <1>2, <1>3, <1>4, <1>5, <1>6, <1>7, <1>8, <1>9 DEF IInv

(* A password changes: every session of the user closes, and a pair that   *)
(* nobody else has comes back.                                             *)
LEMMA ChangePasswordKeeps ==
    ASSUME IInv, NEW t \in Tabs, ChangePassword(t)
    PROVE  IInv'
<1>0. \A q \in Pairs : pair'[q].state = "rotated" => pair[q].state = "rotated"
    BY SweepOnlyCloses, SessionAssumption DEF IInv, TypeOK, ChangePassword, Fresh, MaybePair, Pairs
<1>1. TypeOK'
    BY SessionAssumption DEF IInv, TypeOK, Pairs, MaybePair, NoPair, Row, Page, Kinds,
           Stages, Referred, Owned, Locked, InLock, ChangePassword, Accepts, Swept, Fresh, network
<1>2. Referred'
    BY SessionAssumption DEF IInv, TypeOK, Pairs, MaybePair, NoPair, Row, Page, Kinds,
           Stages, Referred, Locked, InLock, ChangePassword, Accepts, Swept, Fresh, network
<1>3. Owned'
    BY SessionAssumption DEF IInv, TypeOK, Pairs, MaybePair, NoPair, Row, Page, Kinds,
           Stages, Referred, Owned, ChangePassword, Accepts, Swept, Fresh, network
<1>4. Locked'
    BY SessionAssumption DEF IInv, TypeOK, Pairs, MaybePair, NoPair, Row, Page, Kinds,
           Stages, Locked, InLock, ChangePassword, Accepts, Swept, Fresh, network
<1>5. OneInside'
    BY SessionAssumption DEF IInv, TypeOK, Pairs, MaybePair, NoPair, Row, Page, Kinds,
           Stages, OneInside, Locked, InLock, ChangePassword, Accepts, Swept, Fresh, network
<1>6. Private'
    BY SessionAssumption DEF IInv, TypeOK, Pairs, MaybePair, NoPair, Row, Page, Kinds,
           Stages, Private, Referred, Locked, InLock, ChangePassword, Accepts, Swept, Fresh,
           network
<1>7. StoredIsFresh'
    <2>2. \A q : BeingReplaced(q) => BeingReplaced(q)'
        BY DEF BeingReplaced, ChangePassword, IInv, TypeOK, Page
    <2>3. store.refresh # NoPair => store.refresh \in Pairs
        BY DEF IInv, TypeOK, MaybePair, Pairs, NoPair
    <2> QED BY <1>0, <2>2, <2>3 DEF IInv, StoredIsFresh, ChangePassword
<1>8. StraysAreLost'
    BY SessionAssumption DEF IInv, TypeOK, Pairs, MaybePair, NoPair, Row, Page, Kinds,
           Stages, StraysAreLost, ChangePassword, Accepts, Swept, Fresh, network
<1>9. NoFalseTheft'
    <2>2. \A u \in Tabs : tab'[u].stage = "redeeming" => tab'[u] = tab[u]
        BY DEF IInv, TypeOK, ChangePassword, Page
    <2>3. \A u \in Tabs : tab[u].stage = "redeeming" => tab[u].entry \in Pairs
        BY DEF IInv, TypeOK, Page, Locked, InLock, MaybePair, Pairs, NoPair
    <2>4. lost' = lost
        BY DEF ChangePassword
    <2> QED BY <1>0, <2>2, <2>3, <2>4 DEF IInv, NoFalseTheft
<1> QED BY <1>1, <1>2, <1>3, <1>4, <1>5, <1>6, <1>7, <1>8, <1>9 DEF IInv

(* The page stores it. *)
LEMMA StoreChangedKeeps ==
    ASSUME IInv, NEW t \in Tabs, StoreChanged(t)
    PROVE  IInv'
<1>1. TypeOK'
    BY SessionAssumption DEF IInv, TypeOK, Pairs, MaybePair, NoPair, Row, Page, Kinds,
           Stages, Referred, Owned, Locked, InLock, StoreChanged, Both, Done, Quiet, server,
           network
<1>2. Referred'
    BY SessionAssumption DEF IInv, TypeOK, Pairs, MaybePair, NoPair, Row, Page, Kinds,
           Stages, Referred, Locked, InLock, StoreChanged, Both, Done, Quiet, server, network
<1>3. Owned'
    BY SessionAssumption DEF IInv, TypeOK, Pairs, MaybePair, NoPair, Row, Page, Kinds,
           Stages, Referred, Owned, StoreChanged, Both, Done, Quiet, server, network
<1>4. Locked'
    BY SessionAssumption DEF IInv, TypeOK, Pairs, MaybePair, NoPair, Row, Page, Kinds,
           Stages, Locked, InLock, StoreChanged, Both, Done, Quiet, server, network
<1>5. OneInside'
    BY SessionAssumption DEF IInv, TypeOK, Pairs, MaybePair, NoPair, Row, Page, Kinds,
           Stages, OneInside, Locked, InLock, StoreChanged, Both, Done, Quiet, server, network
<1>6. Private'
    BY SessionAssumption DEF IInv, TypeOK, Pairs, MaybePair, NoPair, Row, Page, Kinds,
           Stages, Private, Referred, Locked, InLock, StoreChanged, Both, Done, Quiet, server,
           network
<1>7. StoredIsFresh'
    BY SessionAssumption DEF IInv, TypeOK, Pairs, MaybePair, NoPair, Row, Page, Kinds,
           Stages, StoredIsFresh, BeingReplaced, Private, Referred, Locked, InLock, NoFalseTheft,
           StoreChanged, Both, Done, Quiet, server, network
<1>8. StraysAreLost'
    BY SessionAssumption DEF IInv, TypeOK, Pairs, MaybePair, NoPair, Row, Page, Kinds,
           Stages, StraysAreLost, StoreChanged, Both, Done, Quiet, server, network
<1>9. NoFalseTheft'
    BY SessionAssumption DEF IInv, TypeOK, Pairs, MaybePair, NoPair, Row, Page, Kinds,
           Stages, NoFalseTheft, Locked, InLock, OneInside, StoredIsFresh, BeingReplaced,
           StraysAreLost, StoreChanged, Both, Done, Quiet, server, network
<1> QED BY <1>1, <1>2, <1>3, <1>4, <1>5, <1>6, <1>7, <1>8, <1>9 DEF IInv

(* A request is refused for its token. *)
LEMMA UnauthorizedKeeps ==
    ASSUME IInv, NEW t \in Tabs, Unauthorized(t)
    PROVE  IInv'
<1>1. TypeOK'
    <2>1. [tab[t] EXCEPT !.stage = "refused", !.entry = store.refresh, !.token = NoPair,
                         !.retried = TRUE] \in Page
        BY PairsAreNumbers DEF IInv, TypeOK, Page, Stages
    <2> QED BY <2>1 DEF IInv, TypeOK, Unauthorized, server, network
<1>2. Referred'
    BY SessionAssumption DEF IInv, TypeOK, Pairs, MaybePair, NoPair, Row, Page, Kinds,
           Stages, Referred, Locked, InLock, Unauthorized, server, network
<1>3. Owned'
    BY SessionAssumption DEF IInv, TypeOK, Pairs, MaybePair, NoPair, Row, Page, Kinds,
           Stages, Referred, Owned, Unauthorized, server, network
<1>4. Locked'
    BY SessionAssumption DEF IInv, TypeOK, Pairs, MaybePair, NoPair, Row, Page, Kinds,
           Stages, Locked, InLock, Unauthorized, server, network
<1>5. OneInside'
    BY SessionAssumption DEF IInv, TypeOK, Pairs, MaybePair, NoPair, Row, Page, Kinds,
           Stages, OneInside, Locked, InLock, Unauthorized, server, network
<1>6. Private'
    BY SessionAssumption DEF IInv, TypeOK, Pairs, MaybePair, NoPair, Row, Page, Kinds,
           Stages, Private, Referred, Locked, InLock, Unauthorized, server, network
<1>7. StoredIsFresh'
    BY SessionAssumption DEF IInv, TypeOK, Pairs, MaybePair, NoPair, Row, Page, Kinds,
           Stages, StoredIsFresh, BeingReplaced, Private, Referred, Locked, InLock, NoFalseTheft,
           Unauthorized, server, network
<1>8. StraysAreLost'
    BY SessionAssumption DEF IInv, TypeOK, Pairs, MaybePair, NoPair, Row, Page, Kinds,
           Stages, StraysAreLost, Unauthorized, server, network
<1>9. NoFalseTheft'
    BY SessionAssumption DEF IInv, TypeOK, Pairs, MaybePair, NoPair, Row, Page, Kinds,
           Stages, NoFalseTheft, Locked, InLock, OneInside, StoredIsFresh, BeingReplaced,
           StraysAreLost, Unauthorized, server, network
<1> QED BY <1>1, <1>2, <1>3, <1>4, <1>5, <1>6, <1>7, <1>8, <1>9 DEF IInv

(* A request fails. *)
LEMMA FailKeeps ==
    ASSUME IInv, NEW t \in Tabs, Fail(t)
    PROVE  IInv'
<1>1. TypeOK'
    BY SessionAssumption DEF IInv, TypeOK, Pairs, MaybePair, NoPair, Row, Page, Kinds,
           Stages, Referred, Owned, Locked, InLock, Fail, Done, Quiet, Empty, server, network
<1>2. Referred'
    BY SessionAssumption DEF IInv, TypeOK, Pairs, MaybePair, NoPair, Row, Page, Kinds,
           Stages, Referred, Locked, InLock, Fail, Done, Quiet, Empty, server, network
<1>3. Owned'
    BY SessionAssumption DEF IInv, TypeOK, Pairs, MaybePair, NoPair, Row, Page, Kinds,
           Stages, Referred, Owned, Fail, Done, Quiet, Empty, server, network
<1>4. Locked'
    BY SessionAssumption DEF IInv, TypeOK, Pairs, MaybePair, NoPair, Row, Page, Kinds,
           Stages, Locked, InLock, Fail, Done, Quiet, Empty, server, network
<1>5. OneInside'
    BY SessionAssumption DEF IInv, TypeOK, Pairs, MaybePair, NoPair, Row, Page, Kinds,
           Stages, OneInside, Locked, InLock, Fail, Done, Quiet, Empty, server, network
<1>6. Private'
    BY SessionAssumption DEF IInv, TypeOK, Pairs, MaybePair, NoPair, Row, Page, Kinds,
           Stages, Private, Referred, Locked, InLock, Fail, Done, Quiet, Empty, server, network
<1>7. StoredIsFresh'
    BY SessionAssumption DEF IInv, TypeOK, Pairs, MaybePair, NoPair, Row, Page, Kinds,
           Stages, StoredIsFresh, BeingReplaced, Private, Referred, Locked, InLock, NoFalseTheft,
           Fail, Done, Quiet, Empty, server, network
<1>8. StraysAreLost'
    BY SessionAssumption DEF IInv, TypeOK, Pairs, MaybePair, NoPair, Row, Page, Kinds,
           Stages, StraysAreLost, Fail, Done, Quiet, Empty, server, network
<1>9. NoFalseTheft'
    BY SessionAssumption DEF IInv, TypeOK, Pairs, MaybePair, NoPair, Row, Page, Kinds,
           Stages, NoFalseTheft, Locked, InLock, OneInside, StoredIsFresh, BeingReplaced,
           StraysAreLost, Fail, Done, Quiet, Empty, server, network
<1> QED BY <1>1, <1>2, <1>3, <1>4, <1>5, <1>6, <1>7, <1>8, <1>9 DEF IInv

(* Another page has refreshed meanwhile. *)
LEMMA UseRotatedKeeps ==
    ASSUME IInv, NEW t \in Tabs, UseRotated(t)
    PROVE  IInv'
<1>1. TypeOK'
    <2>1. tab[t].kind \in Kinds
        BY DEF IInv, TypeOK, Page
    <2>2. Send(t, tab[t].kind, TRUE) \in Page
        BY <2>1, SendIsPage DEF IInv
    <2> QED BY <2>2 DEF IInv, TypeOK, UseRotated, server, network
<1>2. Referred'
    BY SessionAssumption DEF IInv, TypeOK, Pairs, MaybePair, NoPair, Row, Page, Kinds,
           Stages, Referred, Locked, InLock, UseRotated, Send, server, network
<1>3. Owned'
    BY SessionAssumption DEF IInv, TypeOK, Pairs, MaybePair, NoPair, Row, Page, Kinds,
           Stages, Referred, Owned, UseRotated, Send, server, network
<1>4. Locked'
    BY SessionAssumption DEF IInv, TypeOK, Pairs, MaybePair, NoPair, Row, Page, Kinds,
           Stages, Locked, InLock, UseRotated, Send, server, network
<1>5. OneInside'
    BY SessionAssumption DEF IInv, TypeOK, Pairs, MaybePair, NoPair, Row, Page, Kinds,
           Stages, OneInside, Locked, InLock, UseRotated, Send, server, network
<1>6. Private'
    BY SessionAssumption DEF IInv, TypeOK, Pairs, MaybePair, NoPair, Row, Page, Kinds,
           Stages, Private, Referred, Locked, InLock, UseRotated, Send, server, network
<1>7. StoredIsFresh'
    BY SessionAssumption DEF IInv, TypeOK, Pairs, MaybePair, NoPair, Row, Page, Kinds,
           Stages, StoredIsFresh, BeingReplaced, Private, Referred, Locked, InLock, NoFalseTheft,
           UseRotated, Send, server, network
<1>8. StraysAreLost'
    BY SessionAssumption DEF IInv, TypeOK, Pairs, MaybePair, NoPair, Row, Page, Kinds,
           Stages, StraysAreLost, UseRotated, Send, server, network
<1>9. NoFalseTheft'
    BY SessionAssumption DEF IInv, TypeOK, Pairs, MaybePair, NoPair, Row, Page, Kinds,
           Stages, NoFalseTheft, Locked, InLock, OneInside, StoredIsFresh, BeingReplaced,
           StraysAreLost, UseRotated, Send, server, network
<1> QED BY <1>1, <1>2, <1>3, <1>4, <1>5, <1>6, <1>7, <1>8, <1>9 DEF IInv

(* There is nothing left to refresh with. *)
LEMMA NothingToRedeemKeeps ==
    ASSUME IInv, NEW t \in Tabs, NothingToRedeem(t)
    PROVE  IInv'
<1>1. TypeOK'
    BY SessionAssumption DEF IInv, TypeOK, Pairs, MaybePair, NoPair, Row, Page, Kinds,
           Stages, Referred, Owned, Locked, InLock, NothingToRedeem, GiveUp, Leaves, Quiet, Empty,
           server, network
<1>2. Referred'
    BY SessionAssumption DEF IInv, TypeOK, Pairs, MaybePair, NoPair, Row, Page, Kinds,
           Stages, Referred, Locked, InLock, NothingToRedeem, GiveUp, Leaves, Quiet, Empty, server,
           network
<1>3. Owned'
    BY SessionAssumption DEF IInv, TypeOK, Pairs, MaybePair, NoPair, Row, Page, Kinds,
           Stages, Referred, Owned, NothingToRedeem, GiveUp, Leaves, Quiet, Empty, server, network
<1>4. Locked'
    BY SessionAssumption DEF IInv, TypeOK, Pairs, MaybePair, NoPair, Row, Page, Kinds,
           Stages, Locked, InLock, NothingToRedeem, GiveUp, Leaves, Quiet, Empty, server, network
<1>5. OneInside'
    BY SessionAssumption DEF IInv, TypeOK, Pairs, MaybePair, NoPair, Row, Page, Kinds,
           Stages, OneInside, Locked, InLock, NothingToRedeem, GiveUp, Leaves, Quiet, Empty,
           server, network
<1>6. Private'
    BY SessionAssumption DEF IInv, TypeOK, Pairs, MaybePair, NoPair, Row, Page, Kinds,
           Stages, Private, Referred, Locked, InLock, NothingToRedeem, GiveUp, Leaves, Quiet,
           Empty, server, network
<1>7. StoredIsFresh'
    BY SessionAssumption DEF IInv, TypeOK, Pairs, MaybePair, NoPair, Row, Page, Kinds,
           Stages, StoredIsFresh, BeingReplaced, Private, Referred, Locked, InLock, NoFalseTheft,
           NothingToRedeem, GiveUp, Leaves, Quiet, Empty, server, network
<1>8. StraysAreLost'
    BY SessionAssumption DEF IInv, TypeOK, Pairs, MaybePair, NoPair, Row, Page, Kinds,
           Stages, StraysAreLost, NothingToRedeem, GiveUp, Leaves, Quiet, Empty, server, network
<1>9. NoFalseTheft'
    BY SessionAssumption DEF IInv, TypeOK, Pairs, MaybePair, NoPair, Row, Page, Kinds,
           Stages, NoFalseTheft, Locked, InLock, OneInside, StoredIsFresh, BeingReplaced,
           StraysAreLost, NothingToRedeem, GiveUp, Leaves, Quiet, Empty, server, network
<1> QED BY <1>1, <1>2, <1>3, <1>4, <1>5, <1>6, <1>7, <1>8, <1>9 DEF IInv

(* A page goes into the lock: nobody else is in it. *)
LEMMA RedeemKeeps ==
    ASSUME IInv, NEW t \in Tabs, Redeem(t), WebLocks
    PROVE  IInv'
<1>1. TypeOK'
    <2>1. [tab[t] EXCEPT !.stage = "redeeming"] \in Page
        BY DEF IInv, TypeOK, Page, Stages
    <2> QED BY <2>1 DEF IInv, TypeOK, Redeem, server, network
<1>2. Referred'
    BY SessionAssumption DEF IInv, TypeOK, Pairs, MaybePair, NoPair, Row, Page, Kinds,
           Stages, Referred, Locked, InLock, Redeem, LockFree, NotYetRotated, server, network
<1>3. Owned'
    BY SessionAssumption DEF IInv, TypeOK, Pairs, MaybePair, NoPair, Row, Page, Kinds,
           Stages, Referred, Owned, Redeem, LockFree, NotYetRotated, server, network
<1>4. Locked'
    BY SessionAssumption DEF IInv, TypeOK, Pairs, MaybePair, NoPair, Row, Page, Kinds,
           Stages, Locked, InLock, Redeem, LockFree, NotYetRotated, server, network
<1>5. OneInside'
    BY SessionAssumption DEF IInv, TypeOK, Pairs, MaybePair, NoPair, Row, Page, Kinds,
           Stages, OneInside, Locked, InLock, Redeem, LockFree, NotYetRotated, server, network
<1>6. Private'
    BY SessionAssumption DEF IInv, TypeOK, Pairs, MaybePair, NoPair, Row, Page, Kinds,
           Stages, Private, Referred, Locked, InLock, Redeem, LockFree, NotYetRotated, server,
           network
<1>7. StoredIsFresh'
    BY SessionAssumption DEF IInv, TypeOK, Pairs, MaybePair, NoPair, Row, Page, Kinds,
           Stages, StoredIsFresh, BeingReplaced, Private, Referred, Locked, InLock, NoFalseTheft,
           Redeem, LockFree, NotYetRotated, server, network
<1>8. StraysAreLost'
    BY SessionAssumption DEF IInv, TypeOK, Pairs, MaybePair, NoPair, Row, Page, Kinds,
           Stages, StraysAreLost, Redeem, LockFree, NotYetRotated, server, network
<1>9. NoFalseTheft'
    BY SessionAssumption DEF IInv, TypeOK, Pairs, MaybePair, NoPair, Row, Page, Kinds,
           Stages, NoFalseTheft, Locked, InLock, OneInside, StoredIsFresh, BeingReplaced,
           StraysAreLost, Redeem, LockFree, NotYetRotated, server, network
<1> QED BY <1>1, <1>2, <1>3, <1>4, <1>5, <1>6, <1>7, <1>8, <1>9 DEF IInv

(* A page inside the lock presents a token: another pair takes its place,  *)
(* or it is told no.                                                       *)
LEMMA ServeRefreshKeeps ==
    ASSUME IInv, NEW t \in Tabs, ServeRefresh(t)
    PROVE  IInv'
<1> DEFINE p == tab[t].entry
<1>1. t \in lock /\ p \in Pairs /\ p <= issued /\ issued \in Nat
    BY SessionAssumption DEF IInv, TypeOK, Page, Locked, InLock, Referred, ServeRefresh,
           MaybePair, Pairs, NoPair
<1>2. UNCHANGED <<store, lock, strays, logouts, lost>>
    BY DEF ServeRefresh, network
<1>3. CASE Rotate(p) /\ tab' = [tab EXCEPT ![t].stage = "redeemed", ![t].got = issued + 1]
    <2>1. /\ ServedToken(p)
          /\ issued' = issued + 1 /\ issued' \in Pairs
          /\ pair'[issued'].user \in Users /\ pair'[issued'].state = "live"
        BY <1>1, <1>3, RotateServes DEF IInv
    <2>2. issued + 1 \in MaybePair /\ issued + 1 # NoPair
        BY <2>1, <1>1 DEF Pairs, MaybePair, NoPair
    <2>3. [tab[t] EXCEPT !.stage = "redeemed", !.got = issued + 1] \in Page
        BY <2>2 DEF IInv, TypeOK, Page, Stages
    <2>4. tab' \in [Tabs -> Page]
        BY <1>3, <2>3 DEF IInv, TypeOK
    <2>5. /\ tab'[t].stage = "redeemed" /\ tab'[t].got = issued + 1
          /\ tab'[t].entry = p /\ tab'[t].token = tab[t].token
          /\ \A u \in Tabs : u # t => tab'[u] = tab[u]
        BY <1>3 DEF IInv, TypeOK, Page
    <2>6. TypeOK'
        BY <1>2, <2>1, <2>4 DEF ServedToken, IInv, TypeOK
    <2>7. Referred'
        <3>1. \A q \in MaybePair : q <= issued => q <= issued'
            BY <1>1, <2>1, PairsAreNumbers
        <3>2. /\ store.access \in MaybePair /\ store.refresh \in MaybePair
              /\ \A u \in Tabs : /\ tab[u].token \in MaybePair /\ tab[u].entry \in MaybePair
                                /\ tab[u].got \in MaybePair
            BY DEF IInv, TypeOK, Page
        <3>3. \A q \in strays : q \in MaybePair
            BY PairsAreNumbers DEF IInv, TypeOK
        <3>4. issued' <= issued'
            BY <1>1, <2>1
        <3>5. ASSUME NEW u \in Tabs
              PROVE  tab'[u].token <= issued' /\ tab'[u].entry <= issued' /\ tab'[u].got <= issued'
            <4>1. CASE u = t
                BY <4>1, <2>1, <2>5, <3>1, <3>2, <3>4 DEF IInv, Referred
            <4>2. CASE u # t
                BY <4>2, <2>5, <3>1, <3>2 DEF IInv, Referred
            <4> QED BY <4>1, <4>2
        <3> QED BY <1>2, <3>1, <3>2, <3>3, <3>5 DEF IInv, Referred
    <2>8. Owned'
        BY <1>1, <2>1 DEF IInv, Owned, ServedToken, Pairs
    <2>9. Locked'
        BY <1>1, <1>2, <2>5 DEF IInv, Locked, InLock, Pairs, NoPair
    <2>10. OneInside'
        BY <1>2 DEF IInv, OneInside
    <2>11. Private'
        <3>1. /\ store'.refresh # issued + 1 /\ issued + 1 \notin strays'
              /\ \A u \in Tabs : tab'[u].entry # issued + 1 /\ tab[u].got # issued + 1
            <4>1. \A q : q <= issued => q # issued + 1
                BY <1>1
            <4>2. \A u \in Tabs : tab'[u].entry = tab[u].entry
                BY <2>5
            <4>3. store'.refresh <= issued /\ \A q \in strays' : q <= issued
                BY <1>2 DEF IInv, Referred
            <4>4. \A u \in Tabs : tab[u].entry <= issued /\ tab[u].got <= issued
                BY DEF IInv, Referred
            <4>5. issued + 1 \notin strays'
                BY <4>1, <4>3
            <4> QED BY <4>1, <4>2, <4>3, <4>4, <4>5
        <3>2. ASSUME NEW u \in Tabs, u # t, tab[u].got # NoPair
              PROVE  pair'[tab[u].got].state # "rotated"
            <4>1. tab[u].got \in Pairs
                BY <3>2, PairsAreNumbers DEF IInv, TypeOK, Page
            <4>2. tab[u].got # p /\ pair[tab[u].got].state # "rotated"
                BY <3>2 DEF IInv, Private
            <4> QED BY <2>1, <4>1, <4>2 DEF ServedToken
        <3>3. pair'[issued + 1].state # "rotated"
            BY <2>1
        <3> SUFFICES ASSUME NEW u \in Tabs, tab'[u].got # NoPair
                     PROVE  /\ store'.refresh # tab'[u].got
                            /\ tab'[u].got \notin strays'
                            /\ pair'[tab'[u].got].state # "rotated"
                            /\ \A v \in Tabs : tab'[v].entry # tab'[u].got
                            /\ \A v \in Tabs : v # u => tab'[v].got # tab'[u].got
            BY DEF Private
        <3>4. CASE u = t
            BY <3>1, <3>3, <3>4, <2>5
        <3>5. CASE u # t
            <4>1. tab'[u] = tab[u] /\ tab[u].got # NoPair
                BY <3>5, <2>5
            <4>2. /\ store.refresh # tab[u].got /\ tab[u].got \notin strays
                  /\ \A v \in Tabs : tab[v].entry # tab[u].got
                  /\ \A v \in Tabs : v # u => tab[v].got # tab[u].got
                BY <4>1 DEF IInv, Private
            <4>3. \A v \in Tabs : tab'[v].entry = tab[v].entry
                BY <2>5
            <4>4. \A v \in Tabs : v # u => tab'[v].got # tab[u].got
                BY <2>5, <3>1, <4>2
            <4> QED BY <1>2, <3>2, <3>5, <4>1, <4>2, <4>3, <4>4
        <3> QED BY <3>4, <3>5
    <2>12. StoredIsFresh'
        <3>1. \A q \in Pairs : BeingReplaced(q) => BeingReplaced(q)'
            BY <2>2, <2>5 DEF BeingReplaced
        <3>2. \A q \in Pairs : q = p => BeingReplaced(q)'
            BY <2>2, <2>5 DEF BeingReplaced
        <3>3. store.refresh \in MaybePair
            BY DEF IInv, TypeOK
        <3>4. ASSUME NEW q \in Pairs, q = store.refresh, pair'[q].state = "rotated"
              PROVE  q \in lost \/ BeingReplaced(q)'
            <4>5. q = p \/ pair[q].state = "rotated"
                BY <2>1, <3>4 DEF ServedToken
            <4>6. CASE q = p
                BY <3>2, <4>6
            <4>7. CASE pair[q].state = "rotated"
                BY <3>1, <3>4, <4>7, PairsAreNumbers DEF IInv, StoredIsFresh
            <4> QED BY <4>5, <4>6, <4>7
        <3>5. store.refresh # NoPair => store.refresh \in Pairs
            BY <3>3, PairsAreNumbers
        <3> QED BY <1>2, <3>4, <3>5 DEF StoredIsFresh, BeingReplaced
    <2>13. NoFalseTheft'
        <3> SUFFICES ASSUME NEW u \in Tabs, tab'[u].stage = "redeeming"
                     PROVE  FALSE
            BY DEF NoFalseTheft
        <3>1. u # t /\ tab[u].stage = "redeeming"
            BY <2>5
        <3>2. u \in lock
            BY <3>1 DEF IInv, Locked, InLock
        <3> QED BY <3>1, <3>2, <1>1 DEF IInv, OneInside
    <2> QED BY <1>2, <2>6, <2>7, <2>8, <2>9, <2>10, <2>11, <2>12, <2>13
            DEF IInv, StraysAreLost
<1>4. CASE (RaiseAlarm(p) \/ Refuse(p)) /\ tab' = [tab EXCEPT ![t].stage = "redeemed"]
    <2>1. ServedToken(p) /\ issued' = issued
        BY <1>1, <1>4, AlarmServes DEF IInv
    <2>2. [tab[t] EXCEPT !.stage = "redeemed"] \in Page
        BY DEF IInv, TypeOK, Page, Stages
    <2>3. tab' \in [Tabs -> Page]
        BY <1>4, <2>2 DEF IInv, TypeOK
    <2>4. /\ tab'[t].stage = "redeemed" /\ tab'[t].got = tab[t].got
          /\ tab'[t].entry = p /\ tab'[t].token = tab[t].token
          /\ \A u \in Tabs : u # t => tab'[u] = tab[u]
        BY <1>4 DEF IInv, TypeOK, Page
    <2>5. \A q \in Pairs : pair'[q].state = "rotated" => pair[q].state = "rotated"
        BY <1>1, <1>4, SweepOnlyCloses DEF RaiseAlarm, Refuse, server, IInv, TypeOK
    <2>6. TypeOK'
        BY <1>2, <2>1, <2>3 DEF ServedToken, IInv, TypeOK
    <2>7. Referred'
        BY <1>2, <2>1, <2>4 DEF IInv, Referred
    <2>8. Owned'
        BY <1>1, <2>1 DEF IInv, Owned, ServedToken, Pairs
    <2>9. Locked'
        BY <1>1, <1>2, <2>4 DEF IInv, Locked, InLock, Pairs, NoPair
    <2>10. OneInside'
        BY <1>2 DEF IInv, OneInside
    <2>11. Private'
        <3>1. \A u \in Tabs : tab'[u].got = tab[u].got /\ tab'[u].entry = tab[u].entry
            BY <2>4
        <3>2. \A u \in Tabs : tab[u].got \in Pairs \/ tab[u].got = NoPair
            BY DEF IInv, TypeOK, Page, MaybePair, Pairs, NoPair
        <3> QED BY <3>1, <3>2, <2>5, <1>2 DEF IInv, Private
    <2>12. StoredIsFresh'
        <3>1. \A q \in Pairs : BeingReplaced(q) => BeingReplaced(q)'
            BY <2>4 DEF BeingReplaced
        <3>2. store.refresh \in MaybePair
            BY DEF IInv, TypeOK
        <3> QED BY <1>2, <2>5, <3>1, <3>2 DEF IInv, StoredIsFresh, MaybePair, Pairs, NoPair
    <2>13. NoFalseTheft'
        <3>1. \A u \in Tabs : tab'[u].stage = "redeeming" => tab[u] = tab'[u] /\ tab[u].entry \in Pairs
            <4>1. \A u \in Tabs : tab[u].stage \in InLock => tab[u].entry \in Pairs
                BY PairsAreNumbers DEF IInv, TypeOK, Page, Locked
            <4>2. \A u \in Tabs : tab'[u].stage = "redeeming" => u # t
                BY <2>4
            <4> QED BY <2>4, <4>1, <4>2 DEF InLock
        <3> QED BY <3>1, <2>5, <1>2 DEF IInv, NoFalseTheft
    <2> QED BY <1>2, <2>6, <2>7, <2>8, <2>9, <2>10, <2>11, <2>12, <2>13
            DEF IInv, StraysAreLost
<1> QED BY <1>3, <1>4 DEF ServeRefresh

(* The answer to a refresh reaches its page: it stores the pair that came  *)
(* and goes on, or everything goes.                                        *)
LEMMA TakeRefreshedKeeps ==
    ASSUME IInv, NEW t \in Tabs, TakeRefreshed(t)
    PROVE  IInv'
<1> DEFINE p == tab[t].got
<1>1. UNCHANGED <<pair, issued, version, strays, logouts, lost>> /\ lock' = lock \ {t}
    BY DEF TakeRefreshed, GiveUp, Leaves, server, network
<1>2. p \in MaybePair /\ p <= issued
    BY DEF IInv, TypeOK, Page, Referred
<1>3. \A u \in Tabs : u # t => tab'[u] = tab[u]
    BY DEF TakeRefreshed, GiveUp, IInv, TypeOK
<1>4. /\ store' \in [access: MaybePair, refresh: MaybePair]
      /\ store'.access = p /\ store'.refresh = p
    BY <1>2, PairsAreStored DEF TakeRefreshed, GiveUp, Both, Empty, NoPair
<1>5. /\ tab' \in [Tabs -> Page]
      /\ tab'[t].stage \notin InLock /\ tab'[t].entry = NoPair /\ tab'[t].got = NoPair
      /\ tab'[t].token \in {NoPair, p}
    <2>1. CASE p # NoPair
        <3>1. [tab[t] EXCEPT !.stage = "asked", !.token = p, !.entry = NoPair, !.got = NoPair]
                \in Page
            BY <1>2, PairsAreNumbers DEF IInv, TypeOK, Page, Stages
        <3>2. tab' = [tab EXCEPT ![t].stage = "asked", ![t].token = p,
                                 ![t].entry = NoPair, ![t].got = NoPair]
            BY <2>1 DEF TakeRefreshed
        <3> QED BY <3>1, <3>2 DEF IInv, TypeOK, InLock, Page
    <2>2. CASE p = NoPair
        <3>1. Quiet(Nobody) \in Page
            BY QuietIsPage
        <3>2. tab' = [tab EXCEPT ![t] = Quiet(Nobody)]
            BY <2>2 DEF TakeRefreshed, GiveUp
        <3> QED BY <3>1, <3>2 DEF IInv, TypeOK, InLock, Quiet
    <2> QED BY <2>1, <2>2
<1>6. TypeOK'
    BY <1>1, <1>4, <1>5 DEF IInv, TypeOK
<1>7. Referred'
    BY <1>1, <1>2, <1>3, <1>4, <1>5, SessionAssumption
       DEF IInv, TypeOK, MaybePair, Referred, NoPair
<1>8. Owned' /\ OneInside' /\ StraysAreLost'
    BY <1>1 DEF IInv, Owned, OneInside, StraysAreLost
<1>9. Locked'
    BY <1>1, <1>3, <1>5 DEF IInv, Locked
<1>10. Private'
    BY <1>1, <1>3, <1>4, <1>5 DEF IInv, Private
<1>11. StoredIsFresh'
    BY <1>1, <1>4 DEF IInv, Private, StoredIsFresh
<1>12. NoFalseTheft'
    BY <1>1, <1>3, <1>5 DEF IInv, NoFalseTheft, InLock
<1> QED BY <1>6, <1>7, <1>8, <1>9, <1>10, <1>11, <1>12 DEF IInv

(* The answer to a refresh is lost. *)
LEMMA LoseRefreshKeeps ==
    ASSUME IInv, NEW t \in Tabs, LoseRefresh(t)
    PROVE  IInv'
<1>0. Locked /\ TypeOK
    BY DEF IInv
<1>1. TypeOK'
    <2>1. Quiet(Nobody) \in Page
        BY QuietIsPage
    <2>2. tab' \in [Tabs -> Page] /\ store' \in [access: MaybePair, refresh: MaybePair]
        BY <2>1, PairsAreStored DEF IInv, TypeOK, LoseRefresh, GiveUp
    <2>3. strays' \subseteq Pairs /\ lost' \subseteq Pairs
        BY AbandonKeeps, <1>0 DEF IInv, LoseRefresh
    <2> QED BY <2>2, <2>3 DEF IInv, TypeOK, LoseRefresh, GiveUp, Leaves, server
<1>2. Referred'
    <2>1. tab[t].entry <= issued /\ issued' = issued
        BY DEF IInv, Referred, LoseRefresh, server
    <2>2. \A q \in strays' : q <= issued
        BY <1>0, <2>1, AbandonKeeps DEF IInv, Referred, LoseRefresh
    <2> QED BY <2>1, <2>2, SessionAssumption
            DEF IInv, TypeOK, MaybePair, NoPair, Referred, LoseRefresh, GiveUp, Quiet, Empty
<1>3. Owned'
    BY SessionAssumption DEF IInv, TypeOK, Pairs, MaybePair, NoPair, Row, Page, Kinds,
           Stages, Referred, Owned, LoseRefresh, Abandon, GiveUp, Leaves, Quiet, Empty, server,
           network
<1>4. Locked'
    BY SessionAssumption DEF IInv, TypeOK, Pairs, MaybePair, NoPair, Row, Page, Kinds,
           Stages, Locked, InLock, LoseRefresh, Abandon, GiveUp, Leaves, Quiet, Empty, server,
           network
<1>5. OneInside'
    BY SessionAssumption DEF IInv, TypeOK, Pairs, MaybePair, NoPair, Row, Page, Kinds,
           Stages, OneInside, Locked, InLock, LoseRefresh, Abandon, GiveUp, Leaves, Quiet, Empty,
           server, network
<1>6. Private'
    BY SessionAssumption DEF IInv, TypeOK, Pairs, MaybePair, NoPair, Row, Page, Kinds,
           Stages, Private, Referred, Locked, InLock, LoseRefresh, Abandon, GiveUp, Leaves, Quiet,
           Empty, server, network
<1>7. StoredIsFresh'
    BY SessionAssumption DEF IInv, TypeOK, Pairs, MaybePair, NoPair, Row, Page, Kinds,
           Stages, StoredIsFresh, BeingReplaced, Private, Referred, Locked, InLock, NoFalseTheft,
           LoseRefresh, Abandon, GiveUp, Leaves, Quiet, Empty, server, network
<1>8. StraysAreLost'
    BY SessionAssumption DEF IInv, TypeOK, Pairs, MaybePair, NoPair, Row, Page, Kinds,
           Stages, StraysAreLost, LoseRefresh, Abandon, GiveUp, Leaves, Quiet, Empty, server,
           network
<1>9. NoFalseTheft'
    BY SessionAssumption DEF IInv, TypeOK, Pairs, MaybePair, NoPair, Row, Page, Kinds,
           Stages, NoFalseTheft, Locked, InLock, OneInside, StoredIsFresh, BeingReplaced,
           StraysAreLost, LoseRefresh, Abandon, GiveUp, Leaves, Quiet, Empty, server, network
<1> QED BY <1>1, <1>2, <1>3, <1>4, <1>5, <1>6, <1>7, <1>8, <1>9 DEF IInv

(* A token of a page that is gone reaches the server. *)
LEMMA ServeStrayKeeps ==
    ASSUME IInv, NEW p \in Pairs, ServeStray(p)
    PROVE  IInv'
<1>1. UNCHANGED <<store, tab, lock, logouts, lost>> /\ strays' = strays \ {p}
    BY DEF ServeStray, browser
<1>2. p \in strays /\ p <= issued /\ p \in lost
    BY DEF ServeStray, IInv, Referred, StraysAreLost
<1>3. ServedToken(p) /\ issued <= issued' /\ Owned'
    <2>1. CASE Rotate(p)
        <3>1. /\ ServedToken(p) /\ issued' = issued + 1
              /\ pair'[issued'].user \in Users /\ issued \in Nat
            BY <2>1, <1>2, RotateServes, PairsAreNumbers DEF IInv, TypeOK
        <3>2. \A q \in Pairs : q <= issued' => q <= issued \/ q = issued'
            BY <3>1 DEF Pairs
        <3> QED BY <3>1, <3>2 DEF IInv, Owned, ServedToken
    <2>2. CASE RaiseAlarm(p) \/ Refuse(p)
        BY <2>2, AlarmServes DEF IInv, Owned, ServedToken, TypeOK, MaybePair, Pairs
    <2> QED BY <2>1, <2>2 DEF ServeStray
<1>4. TypeOK'
    BY <1>1, <1>3 DEF IInv, TypeOK, ServedToken
<1>5. Referred'
    BY <1>1, <1>3, SessionAssumption DEF IInv, TypeOK, Page, MaybePair, Pairs, ServedToken, Referred
<1>6. Locked' /\ OneInside' /\ StraysAreLost'
    BY <1>1 DEF IInv, Locked, OneInside, StraysAreLost
<1>7. Private'
    <2>1. \A u \in Tabs : tab[u].got # NoPair => tab[u].got \in Pairs /\ tab[u].got # p
        BY <1>2 DEF IInv, Private, TypeOK, Page, MaybePair, Pairs, NoPair
    <2> QED BY <1>1, <1>3, <2>1 DEF IInv, Private, ServedToken
<1>8. StoredIsFresh'
    <2>1. store.refresh # NoPair => store.refresh \in Pairs
        BY DEF IInv, TypeOK, MaybePair, Pairs, NoPair
    <2>2. \A q : BeingReplaced(q) => BeingReplaced(q)'
        BY <1>1 DEF BeingReplaced
    <2> QED BY <1>1, <1>2, <1>3, <2>1, <2>2 DEF IInv, StoredIsFresh, ServedToken
<1>9. NoFalseTheft'
    <2>1. \A u \in Tabs : tab[u].stage = "redeeming" => tab[u].entry \in Pairs
        BY DEF IInv, TypeOK, Page, Locked, InLock, MaybePair, Pairs, NoPair
    <2> QED BY <1>1, <1>2, <1>3, <2>1 DEF IInv, NoFalseTheft, ServedToken
<1> QED BY <1>3, <1>4, <1>5, <1>6, <1>7, <1>8, <1>9 DEF IInv

(* Somebody signs out. *)
LEMMA LogoutKeeps ==
    ASSUME IInv, NEW t \in Tabs, Logout(t)
    PROVE  IInv'
<1>1. TypeOK'
    <2>1. [tab[t] EXCEPT !.user = Nobody] \in Page
        BY DEF IInv, TypeOK, Page
    <2>2. store' \in [access: MaybePair, refresh: MaybePair]
        BY PairsAreStored DEF IInv, TypeOK, Logout
    <2>3. {store.refresh} \ {NoPair} \subseteq Pairs
        BY DEF IInv, TypeOK, MaybePair, Pairs, NoPair
    <2> QED BY <2>1, <2>2, <2>3 DEF IInv, TypeOK, Logout, server
<1>2. Referred'
    BY SessionAssumption DEF IInv, TypeOK, Pairs, MaybePair, NoPair, Row, Page, Kinds,
           Stages, Referred, Locked, InLock, Logout, Empty, server
<1>3. Owned'
    BY SessionAssumption DEF IInv, TypeOK, Pairs, MaybePair, NoPair, Row, Page, Kinds,
           Stages, Referred, Owned, Logout, Empty, server
<1>4. Locked'
    BY SessionAssumption DEF IInv, TypeOK, Pairs, MaybePair, NoPair, Row, Page, Kinds,
           Stages, Locked, InLock, Logout, Empty, server
<1>5. OneInside'
    BY SessionAssumption DEF IInv, TypeOK, Pairs, MaybePair, NoPair, Row, Page, Kinds,
           Stages, OneInside, Locked, InLock, Logout, Empty, server
<1>6. Private'
    BY SessionAssumption DEF IInv, TypeOK, Pairs, MaybePair, NoPair, Row, Page, Kinds,
           Stages, Private, Referred, Locked, InLock, Logout, Empty, server
<1>7. StoredIsFresh'
    BY SessionAssumption DEF IInv, TypeOK, Pairs, MaybePair, NoPair, Row, Page, Kinds,
           Stages, StoredIsFresh, BeingReplaced, Private, Referred, Locked, InLock, NoFalseTheft,
           Logout, Empty, server
<1>8. StraysAreLost'
    BY SessionAssumption DEF IInv, TypeOK, Pairs, MaybePair, NoPair, Row, Page, Kinds,
           Stages, StraysAreLost, Logout, Empty, server
<1>9. NoFalseTheft'
    BY SessionAssumption DEF IInv, TypeOK, Pairs, MaybePair, NoPair, Row, Page, Kinds,
           Stages, NoFalseTheft, Locked, InLock, OneInside, StoredIsFresh, BeingReplaced,
           StraysAreLost, Logout, Empty, server
<1> QED BY <1>1, <1>2, <1>3, <1>4, <1>5, <1>6, <1>7, <1>8, <1>9 DEF IInv

(* The server hears of it. *)
LEMMA ServeLogoutKeeps ==
    ASSUME IInv, NEW p \in Pairs, ServeLogout(p)
    PROVE  IInv'
<1>1. TypeOK'
    <2>1. [pair[p] EXCEPT !.state = "revoked"] \in Row
        BY DEF IInv, TypeOK, Row
    <2> QED BY <2>1 DEF IInv, TypeOK, ServeLogout, browser, network
<1>2. Referred'
    BY SessionAssumption DEF IInv, TypeOK, Pairs, MaybePair, NoPair, Row, Page, Kinds,
           Stages, Referred, Locked, InLock, ServeLogout, browser, network
<1>3. Owned'
    BY SessionAssumption DEF IInv, TypeOK, Pairs, MaybePair, NoPair, Row, Page, Kinds,
           Stages, Referred, Owned, ServeLogout, browser, network
<1>4. Locked'
    BY SessionAssumption DEF IInv, TypeOK, Pairs, MaybePair, NoPair, Row, Page, Kinds,
           Stages, Locked, InLock, ServeLogout, browser, network
<1>5. OneInside'
    BY SessionAssumption DEF IInv, TypeOK, Pairs, MaybePair, NoPair, Row, Page, Kinds,
           Stages, OneInside, Locked, InLock, ServeLogout, browser, network
<1>6. Private'
    BY SessionAssumption DEF IInv, TypeOK, Pairs, MaybePair, NoPair, Row, Page, Kinds,
           Stages, Private, Referred, Locked, InLock, ServeLogout, browser, network
<1>7. StoredIsFresh'
    BY SessionAssumption DEF IInv, TypeOK, Pairs, MaybePair, NoPair, Row, Page, Kinds,
           Stages, StoredIsFresh, BeingReplaced, Private, Referred, Locked, InLock, NoFalseTheft,
           ServeLogout, browser, network
<1>8. StraysAreLost'
    BY SessionAssumption DEF IInv, TypeOK, Pairs, MaybePair, NoPair, Row, Page, Kinds,
           Stages, StraysAreLost, ServeLogout, browser, network
<1>9. NoFalseTheft'
    BY SessionAssumption DEF IInv, TypeOK, Pairs, MaybePair, NoPair, Row, Page, Kinds,
           Stages, NoFalseTheft, Locked, InLock, OneInside, StoredIsFresh, BeingReplaced,
           StraysAreLost, ServeLogout, browser, network
<1> QED BY <1>1, <1>2, <1>3, <1>4, <1>5, <1>6, <1>7, <1>8, <1>9 DEF IInv

(* A page goes away in the middle of whatever it did. *)
LEMMA ReloadKeeps ==
    ASSUME IInv, NEW t \in Tabs, Reload(t)
    PROVE  IInv'
<1>0. Locked /\ TypeOK
    BY DEF IInv
<1>1. TypeOK'
    <2>1. Quiet(Nobody) \in Page
        BY QuietIsPage
    <2>2. [Quiet(Nobody) EXCEPT !.kind = "restore", !.stage = "asked", !.token = store.access]
            \in Page
        BY <2>1 DEF IInv, TypeOK, Page, Kinds, Stages
    <2>3. tab' \in [Tabs -> Page]
        BY <2>1, <2>2 DEF IInv, TypeOK, Reload
    <2>4. strays' \subseteq Pairs /\ lost' \subseteq Pairs
        BY AbandonKeeps, <1>0 DEF IInv, Reload
    <2> QED BY <2>3, <2>4 DEF IInv, TypeOK, Reload, server
<1>2. Referred'
    BY SessionAssumption DEF IInv, TypeOK, Pairs, MaybePair, NoPair, Row, Page, Kinds,
           Stages, Referred, Locked, InLock, Reload, Abandon, Quiet, server
<1>3. Owned'
    BY SessionAssumption DEF IInv, TypeOK, Pairs, MaybePair, NoPair, Row, Page, Kinds,
           Stages, Referred, Owned, Reload, Abandon, Quiet, server
<1>4. Locked'
    BY SessionAssumption DEF IInv, TypeOK, Pairs, MaybePair, NoPair, Row, Page, Kinds,
           Stages, Locked, InLock, Reload, Abandon, Quiet, server
<1>5. OneInside'
    BY SessionAssumption DEF IInv, TypeOK, Pairs, MaybePair, NoPair, Row, Page, Kinds,
           Stages, OneInside, Locked, InLock, Reload, Abandon, Quiet, server
<1>6. Private'
    BY SessionAssumption DEF IInv, TypeOK, Pairs, MaybePair, NoPair, Row, Page, Kinds,
           Stages, Private, Referred, Locked, InLock, Reload, Abandon, Quiet, server
<1>7. StoredIsFresh'
    BY SessionAssumption DEF IInv, TypeOK, Pairs, MaybePair, NoPair, Row, Page, Kinds,
           Stages, StoredIsFresh, BeingReplaced, Private, Referred, Locked, InLock, NoFalseTheft,
           Reload, Abandon, Quiet, server
<1>8. StraysAreLost'
    BY SessionAssumption DEF IInv, TypeOK, Pairs, MaybePair, NoPair, Row, Page, Kinds,
           Stages, StraysAreLost, Reload, Abandon, Quiet, server
<1>9. NoFalseTheft'
    BY SessionAssumption DEF IInv, TypeOK, Pairs, MaybePair, NoPair, Row, Page, Kinds,
           Stages, NoFalseTheft, Locked, InLock, OneInside, StoredIsFresh, BeingReplaced,
           StraysAreLost, Reload, Abandon, Quiet, server
<1> QED BY <1>1, <1>2, <1>3, <1>4, <1>5, <1>6, <1>7, <1>8, <1>9 DEF IInv

(* Who opens the browser with a session stored. *)
LEMMA InitKeeps == Init => IInv
<1> SUFFICES ASSUME Init PROVE IInv
    OBVIOUS
<1> PICK u \in Users :
       /\ store = Both(1) /\ tab = [t \in Tabs |-> Quiet(u)] /\ lock = {}
       /\ pair = [p \in Pairs |-> IF p = 1 THEN [user |-> u, ver |-> 0, state |-> "live"]
                                  ELSE [user |-> Nobody, ver |-> 0, state |-> "none"]]
       /\ issued = 1 /\ version = [v \in Users |-> 0]
       /\ strays = {} /\ logouts = {} /\ lost = {}
    BY DEF Init
<1>1. Quiet(u) \in Page /\ 1 \in Pairs
    BY QuietIsPage, SessionAssumption DEF Pairs
<1>2. TypeOK
    BY <1>1, PairsAreNumbers, PairsAreStored, SessionAssumption DEF TypeOK, Row
<1>3. Referred /\ Owned
    BY <1>1 DEF Referred, Owned, Both, Quiet, NoPair, Pairs
<1>4. Locked /\ OneInside /\ Private /\ StraysAreLost /\ NoFalseTheft
    BY DEF Locked, InLock, OneInside, Private, StraysAreLost, NoFalseTheft, Quiet
<1>5. StoredIsFresh
    BY <1>1 DEF StoredIsFresh, Both
<1> QED BY <1>2, <1>3, <1>4, <1>5 DEF IInv

(* A step of somebody else. *)
LEMMA StutterKeeps == IInv /\ UNCHANGED vars => IInv'
BY DEF IInv, TypeOK, Referred, Owned, Locked, OneInside, Private, StoredIsFresh,
       BeingReplaced, StraysAreLost, NoFalseTheft, vars, browser, server, network

(* Every step keeps the invariant. *)
LEMMA NextKeeps ==
    ASSUME IInv, WebLocks, Next
    PROVE  IInv'
<1>1. ASSUME NEW t \in Tabs, Asks(t) PROVE IInv'
    BY <1>1, AskKeeps DEF Asks, Kinds
<1>2. ASSUME NEW t \in Tabs, Settles(t) PROVE IInv'
    BY <1>2, AnswerKeeps, SignInKeeps, ChangePasswordKeeps, StoreChangedKeeps,
       UnauthorizedKeeps, FailKeeps DEF Settles
<1>3. ASSUME NEW t \in Tabs, Refreshes(t) PROVE IInv'
    BY <1>3, UseRotatedKeeps, NothingToRedeemKeeps, RedeemKeeps, ServeRefreshKeeps,
       TakeRefreshedKeeps, LoseRefreshKeeps DEF Refreshes
<1>4. ASSUME NEW t \in Tabs, Logout(t) \/ Reload(t) PROVE IInv'
    BY <1>4, LogoutKeeps, ReloadKeeps
<1>5. ASSUME NEW p \in Pairs, ServeStray(p) \/ ServeLogout(p) PROVE IInv'
    BY <1>5, ServeStrayKeeps, ServeLogoutKeeps
<1> QED BY <1>1, <1>2, <1>3, <1>4, <1>5 DEF Next

(* The invariant holds in every state. *)
LEMMA Invariance ==
    ASSUME WebLocks
    PROVE  Spec => []IInv
<1>1. IInv /\ [Next]_vars => IInv'
    BY NextKeeps, StutterKeeps
<1> QED BY InitKeeps, <1>1, PTL DEF Spec

(* The values stay of their types, with any number of tabs, people and     *)
(* pairs, in a browser that has navigator.locks (lib/api.ts:38-57).        *)
THEOREM SessionTypeCorrect ==
    ASSUME WebLocks
    PROVE  Spec => []TypeOK
BY Invariance, PTL DEF IInv

(* In a browser that has navigator.locks no page ever presents a refresh   *)
(* token that was used up already, unless the answer was lost: however     *)
(* many tabs refresh, reload, sign out and in at once, the server does not *)
(* take one for the thief of another (lib/api.ts:29-78, auth.py:467-490).  *)
THEOREM TabsAreNoThieves ==
    ASSUME WebLocks
    PROVE  Spec => []NoFalseTheft
BY Invariance, PTL DEF IInv

(* The token kept in the browser is one the server has not seen yet, but   *)
(* while its successor is on its way or after that was lost.               *)
THEOREM StoredTokenIsFresh ==
    ASSUME WebLocks
    PROVE  Spec => []StoredPairIsFresh
<1>1. IInv => StoredPairIsFresh
    BY DEF IInv, StoredIsFresh, BeingReplaced, Locked, InLock, StoredPairIsFresh
<1> QED BY <1>1, Invariance, PTL
=============================================================================
