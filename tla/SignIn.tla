-------------------------------- MODULE SignIn ---------------------------------
(***************************************************************************)
(* The sign-in page of one browser, used by several people in turn: the    *)
(* academy it remembers, the academies it offers, the password, the        *)
(* provider and the second factor, against the server's choice of account  *)
(* and its counts of failed attempts, while accounts are deactivated and   *)
(* academies suspended.                                                    *)
(***************************************************************************)
EXTENDS Naturals, FiniteSets

CONSTANTS
    Accounts,        \* [email, academy, mfa]
    UserThreshold, IpThreshold, MaxSubmits,
    MaxOdd           \* accounts linked at the beginning; accounts and academies closed

VARIABLES
    stored,     \* the academy the browser remembers
    page,       \* what is on the screen
    call,       \* the request under way
    tries,      \* failed attempts, by whom they are counted against
    locked,     \* who is locked
    submits,
    shut,       \* the accounts deactivated, the academies suspended
    links       \* whose identity of the provider each account is linked to

vars == <<stored, page, call, tries, locked, submits, shut, links>>

NoAcademy == "none"
Emails == {a.email : a \in Accounts}
Academies == {a.academy : a \in Accounts}
TheirsOf(email) == {a \in Accounts : a.email = email}

(* Against whom attempts are counted: the address of the network, an       *)
(* account, an e-mail that has none where it was looked for, a code.       *)
Ip == <<"ip", "all", "all">>
User(a) == <<"user", a.email, a.academy>>
Unknown(email) == <<"email", email, "all">>
Code(a) == <<"mfa", a.email, a.academy>>
Keys == {Ip} \cup {User(a) : a \in Accounts} \cup {Code(a) : a \in Accounts}
        \cup {Unknown(e) : e \in Emails}
Threshold(k) == IF k = Ip THEN IpThreshold ELSE UserThreshold

(* What is closed: an account, a whole academy. *)
Key(a) == <<a.email, a.academy>>
Whole(academy) == <<"all", academy>>
Doors == {Key(a) : a \in Accounts} \cup {Whole(x) : x \in Academies}
Inactive(a) == Key(a) \in shut
Suspended(a) == Whole(a.academy) \in shut

(* Linked to nobody, to whom the provider knows by that address today, or  *)
(* to an identity it no longer is.                                         *)
Identities == {"nobody", "them", "another"}
LinkedTo(email) == {a \in TheirsOf(email) : links[a] = "them"}

(* Where the academy that is sent came from: nowhere, the memory, an offer *)
(* made to this e-mail, or one that was made to another.                   *)
Sources == {"nowhere", "memory", "offer", "late"}
Remembered(p) ==
    IF stored # NoAcademy /\ p.slug = NoAcademy /\ p.offered = {}
    THEN [p EXCEPT !.slug = stored, !.source = "memory"] ELSE p

(* accepts: the accounts the credential is good for; why: what the server  *)
(* notes of a refusal and the client is not told.                          *)
NoCall == [by |-> "nobody", email |-> "none", slug |-> NoAcademy, accepts |-> {},
           source |-> "nowhere", answer |-> "none", account |-> {}, why |-> "none"]
Blank == [shown |-> "login", email |-> "none", slug |-> NoAcademy,
          offered |-> {}, source |-> "nowhere", remember |-> (stored # NoAcademy), who |-> {}]

Init ==
    /\ stored \in {NoAcademy} \cup Academies
    /\ page = Remembered(Blank)
    /\ call = NoCall
    /\ tries = [k \in Keys |-> 0] /\ locked = {}
    /\ submits = 0
    /\ shut = {}
    /\ links \in [Accounts -> Identities]
    /\ Cardinality({a \in Accounts : links[a] # "nobody"}) <= MaxOdd
    /\ \A a, b \in Accounts : a.email = b.email /\ links[a] = "them" /\ links[b] = "them" => a = b

-----------------------------------------------------------------------------
(* The page. *)

(* A slip: the academy chosen for the address before stays. *)
RetypedKeeping(email) == [page EXCEPT !.email = email, !.offered = {}]

(* Another address may be of another academy, so what was offered goes.    *)
Retyped(email) ==
    IF page.offered = {} THEN [page EXCEPT !.email = email]
    ELSE Remembered([page EXCEPT !.email = email, !.offered = {}, !.slug = NoAcademy,
                                 !.source = "nowhere"])

Type(email) ==
    /\ page.shown = "login" /\ email # page.email
    /\ page' = Retyped(email)
    /\ UNCHANGED <<stored, call, tries, locked, submits, shut, links>>

Choose(academy) ==
    /\ page.shown = "login" \/ (page.shown = "callback" /\ call = NoCall)
    /\ academy \in page.offered
    /\ page' = [page EXCEPT !.slug = academy]
    /\ UNCHANGED <<stored, call, tries, locked, submits, shut, links>>

(* The box is there only beside an offer. *)
ToggleRemember ==
    /\ page.shown = "login" /\ page.offered # {}
    /\ page' = [page EXCEPT !.remember = ~@]
    /\ stored' = IF page.remember THEN NoAcademy ELSE stored
    /\ UNCHANGED <<call, tries, locked, submits, shut, links>>

Send(by, accepts, as) ==
    /\ call = NoCall /\ submits < MaxSubmits + (IF by = "code" THEN 1 ELSE 0)
    /\ submits' = submits + 1
    /\ call' = [NoCall EXCEPT !.by = by, !.email = as.email, !.slug = as.slug,
                              !.accepts = accepts, !.source = as.source, !.account = as.who]
    /\ UNCHANGED <<shut, links>>

(* onSubmit: what is to be remembered is written before it is tried.  One  *)
(* password may be that of none, of some or of all the accounts.           *)
Submit ==
    /\ page.shown = "login" /\ page.email # "none"
    /\ \E accepts \in SUBSET TheirsOf(page.email) : Send("password", accepts, page)
    /\ stored' = IF page.remember /\ page.slug # NoAcademy THEN page.slug
                 ELSE IF ~page.remember THEN NoAcademy ELSE stored
    /\ UNCHANGED <<page, tries, locked>>

(* Google, Microsoft, the link in a mail: out of the page and back to one  *)
(* of its own, as whoever the provider knows; the academy travels along.   *)
(* The provider's word may not be taken, or have run out.                  *)
Vouched(email) == {{}, TheirsOf(email)}

GoToProvider(email) ==
    /\ page.shown = "login"
    /\ page' = [page EXCEPT !.shown = "callback", !.email = email, !.offered = {},
                  !.source = IF @ = "offer" /\ email # page.email THEN "late" ELSE @]
    /\ \E accepts \in Vouched(email) : Send("provider", accepts, page')
    /\ UNCHANGED <<stored, tries, locked>>

ChooseAtCallback ==
    /\ page.shown = "callback" /\ page.offered # {}
    /\ \E accepts \in Vouched(page.email) : Send("provider", accepts, page)
    /\ UNCHANGED <<stored, page, tries, locked>>

SendCode ==
    /\ page.shown = "mfa"
    /\ \E accepts \in {{}, page.who} : Send("code", accepts, page)
    /\ UNCHANGED <<stored, page, tries, locked>>

(* The way back of the other pages, and the way out of the application. *)
BackToLogin ==
    /\ page.shown # "login" /\ call = NoCall
    /\ page' = Remembered(Blank)
    /\ UNCHANGED <<stored, call, tries, locked, submits, shut, links>>

-----------------------------------------------------------------------------
(* The server. *)

Narrowed(email, slug) ==
    {a \in TheirsOf(email) : slug = NoAcademy \/ a.academy = slug}

Replies(answer, account) == call' = [call EXCEPT !.answer = answer, !.account = account]
Turns(answer, why) == call' = [call EXCEPT !.answer = answer, !.account = {}, !.why = why]

(* record_failed_login: each of them, and the network once for each. *)
Fails(keys, times) ==
    LET now == [k \in Keys |-> IF k = Ip /\ times > 0 THEN tries[k] + times
                               ELSE IF k \in keys THEN tries[k] + 1 ELSE tries[k]]
    IN  /\ tries' = now
        /\ locked' = locked \cup {k \in keys \cup (IF times > 0 THEN {Ip} ELSE {}) :
                                     now[k] >= Threshold(k)}

Clears(k) == tries' = [tries EXCEPT ![k] = 0] /\ locked' = locked \ {k}

(* Whoever proved to be this account: shut out, a second factor, or in. *)
Closed(a) == Inactive(a) \/ Suspended(a)
TurnsOut(a) == IF Inactive(a) THEN Turns("refused", "closed") ELSE Turns("suspended", "closed")
Opens(a) == Replies(IF a.mfa THEN "mfa" ELSE "in", {a})

(* Each lock is asked about before the password is, but for that of one    *)
(* account among several, which only its password points out.              *)
ServePassword ==
    /\ call.by = "password" /\ call.answer = "none"
    /\ LET found == Narrowed(call.email, call.slug)
           matching == found \cap call.accepts
       IN  \/ /\ Ip \in locked
              /\ Turns("locked", "none") /\ UNCHANGED <<tries, locked>>
           \/ /\ Ip \notin locked /\ Cardinality(matching) > 1
              /\ Replies("choose", matching) /\ UNCHANGED <<tries, locked>>
           \/ /\ Ip \notin locked
              /\ \E a \in found :
                    /\ {a} \in {found, matching} /\ User(a) \in locked
                    /\ Turns("locked", "none") /\ UNCHANGED <<tries, locked>>
           \/ /\ Ip \notin locked
              /\ \E a \in found :
                    /\ {a} = matching /\ User(a) \notin locked
                    /\ IF Closed(a) THEN TurnsOut(a) /\ UNCHANGED <<tries, locked>>
                       ELSE Opens(a) /\ Clears(User(a))
           \/ /\ Ip \notin locked /\ found # {} /\ matching = {}
              /\ \A a \in found : {a} = found => User(a) \notin locked
              /\ Turns("refused", "none")
              /\ Fails({User(a) : a \in found}, Cardinality(found))
           \/ /\ Ip \notin locked /\ found = {}
              /\ IF Unknown(call.email) \in locked
                 THEN Turns("locked", "none") /\ UNCHANGED <<tries, locked>>
                 ELSE Turns("refused", "none") /\ Fails({Unknown(call.email)}, 1)
    /\ UNCHANGED <<stored, page, submits, shut, links>>

(* supabase_login: first whoever is linked to that identity, whatever      *)
(* academy was sent; by the address only where nobody is.  The link is     *)
(* stored by the commit of a session, so not when a second factor is due.  *)
ServeProvider ==
    /\ call.by = "provider" /\ call.answer = "none"
    /\ LET linked == IF call.accepts = {} THEN {} ELSE LinkedTo(call.email)
           found == IF linked # {} THEN linked ELSE Narrowed(call.email, call.slug)
       IN  \/ /\ call.accepts = {}
              /\ \E answer \in {"refused", "stranger"} : Turns(answer, "none")
              /\ UNCHANGED links
           \/ /\ call.accepts # {} /\ found = {}
              /\ Turns("stranger", "none") /\ UNCHANGED links
           \/ /\ call.accepts # {} /\ Cardinality(found) > 1
              /\ Replies("choose", found) /\ UNCHANGED links
           \/ /\ call.accepts # {}
              /\ \E a \in found :
                    /\ found = {a}
                    /\ IF links[a] = "another" THEN Turns("refused", "elsewhere") /\ UNCHANGED links
                       ELSE IF Closed(a) THEN TurnsOut(a) /\ UNCHANGED links
                       ELSE /\ Opens(a)
                            /\ links' = IF a.mfa THEN links ELSE [links EXCEPT ![a] = "them"]
    /\ UNCHANGED <<stored, page, tries, locked, submits, shut>>

(* An account closed since its password was right is as a code gone wrong. *)
ServeCode ==
    /\ call.by = "code" /\ call.answer = "none"
    /\ \E a \in call.account :
          IF Closed(a) THEN Replies("refused", {a}) /\ UNCHANGED <<tries, locked>>
          ELSE IF Code(a) \in locked THEN Replies("locked", {a}) /\ UNCHANGED <<tries, locked>>
          ELSE IF a \in call.accepts THEN Replies("in", {a}) /\ Clears(Code(a))
          ELSE Replies("refused", {a}) /\ Fails({Code(a)}, 0)
    /\ UNCHANGED <<stored, page, submits, shut, links>>

(* An account is deactivated, an academy suspended; and the other way.  *)
Shut(door) ==
    /\ door \notin shut /\ Cardinality(shut) < MaxOdd
    /\ shut' = shut \cup {door}
    /\ UNCHANGED <<stored, page, call, tries, locked, submits, links>>

Reopen(door) ==
    /\ door \in shut
    /\ shut' = shut \ {door}
    /\ UNCHANGED <<stored, page, call, tries, locked, submits, links>>

(* A lock runs out; the attempts of the day are still counted. *)
LockEnds(k) ==
    /\ k \in locked
    /\ locked' = locked \ {k}
    /\ UNCHANGED <<stored, page, call, tries, submits, shut, links>>

-----------------------------------------------------------------------------
(* The answer. *)

(* A password the server refuses may be one the provider knows: the        *)
(* provider's word for it is tried next, with the same academy.            *)
TrySupabase ==
    /\ call.by = "password" /\ call.answer = "refused"
    /\ call' = [NoCall EXCEPT !.by = "provider", !.email = call.email, !.slug = call.slug,
                              !.source = call.source, !.accepts = TheirsOf(call.email)]
    /\ UNCHANGED <<stored, page, tries, locked, submits, shut, links>>

Offer ==
    \E first \in call.account :
        page' = [page EXCEPT !.offered = {a.academy : a \in call.account}, !.slug = first.academy,
                             !.source = IF page.email = call.email THEN "offer" ELSE "late"]

(* To another page, where nothing of this one is left. *)
Leave == page' = [Blank EXCEPT !.shown = call.answer, !.who = call.account]

Answer ==
    /\ call.answer # "none"
    /\ call' = NoCall
    /\ CASE call.answer \in {"in", "mfa"} -> Leave
         [] call.answer = "choose" -> Offer
         [] OTHER -> page' = IF page.shown = "callback" THEN [page EXCEPT !.offered = {}] ELSE page
    /\ UNCHANGED <<stored, tries, locked, submits, shut, links>>

Next ==
    \/ \E e \in Emails : Type(e) \/ GoToProvider(e)
    \/ \E academy \in Academies : Choose(academy)
    \/ Submit \/ SendCode \/ ChooseAtCallback \/ ToggleRemember \/ BackToLogin
    \/ \E k \in Keys : LockEnds(k)
    \/ \E door \in Doors : Shut(door) \/ Reopen(door)
    \/ ServePassword \/ ServeProvider \/ ServeCode \/ TrySupabase \/ Answer

Spec == Init /\ [][Next]_vars

-----------------------------------------------------------------------------
Entering == call.by \in {"password", "provider"}
TurnedAway == call.answer \in {"refused", "stranger"}

(* Whose password or provider is good for an account, and who is told all  *)
(* the same that it is not, or that there is none, has that account        *)
(* deactivated or linked to another identity; or an academy was sent that  *)
(* it is no account of: the one this browser remembers; one offered to     *)
(* another address, changed before the offer came or given up for an       *)
(* account of a provider; or, of those offered to this address, one where  *)
(* they have an account with another password.                             *)
RefusedForTheAcademy ==
    Entering /\ TurnedAway /\ call.accepts # {} =>
      \/ call.why \in {"closed", "elsewhere"}
      \/ /\ call.slug # NoAcademy /\ \A a \in call.accepts : a.academy # call.slug
         /\ \/ call.source \in {"memory", "late"}
            \/ /\ call.source = "offer" /\ call.by = "password"
               /\ Narrowed(call.email, call.slug) # {}

(* A refusal says the credential is not valid.  It does not hold: it is,   *)
(* in an academy other than the one the browser remembers.                 *)
RefusalMeansInvalid ==
    Entering /\ call.answer = "refused" /\ call.why = "none" => call.accepts = {}

(* Who comes from a provider with an address of several academies, and no  *)
(* academy chosen, is asked which.  It does not hold: once one of the      *)
(* accounts is linked, its identity is looked for first.                   *)
AsksWhichAcademy ==
    call.by = "provider" /\ call.slug = NoAcademy /\ call.answer \in {"in", "mfa"}
    => Cardinality(TheirsOf(call.email)) = 1

-----------------------------------------------------------------------------
(* Why it holds. *)

Mistaken == {"memory", "late"}

\* The page: an academy it would send is the one remembered, one that may be another's, or
\* one of those where the address is known.
PageInv ==
    /\ page = [shown |-> page.shown, email |-> page.email, slug |-> page.slug,
               offered |-> page.offered, source |-> page.source, remember |-> page.remember,
               who |-> page.who]
    /\ page.email \in Emails \cup {"none"}
    /\ page.shown = "callback" => page.email \in Emails
    /\ page.offered # {} => page.source \in {"offer", "late"}
    /\ page.source \in {"nowhere", "offer"} \cup Mistaken
    /\ page.source = "nowhere" => page.slug = NoAcademy
    /\ page.source = "offer" =>
         /\ page.email \in Emails /\ Narrowed(page.email, page.slug) # {}
         /\ page.offered \subseteq {a.academy : a \in TheirsOf(page.email)}
         /\ page.shown = "login" => page.offered # {}

\* The request: unless the academy sent may be another's, somebody is there to be found.
CallInv ==
    /\ call = [by |-> call.by, email |-> call.email, slug |-> call.slug, accepts |-> call.accepts,
               source |-> call.source, answer |-> call.answer, account |-> call.account,
               why |-> call.why]
    /\ Entering =>
         /\ call.accepts \subseteq TheirsOf(call.email)
         /\ call.by = "provider" => call.accepts \in {{}, TheirsOf(call.email)}
         /\ call.source \in {"nowhere", "offer"} \cup Mistaken
         /\ call.source = "nowhere" => call.slug = NoAcademy
         /\ call.source \notin Mistaken => Narrowed(call.email, call.slug) # {}
    /\ call.answer = "choose" => call.account \subseteq TheirsOf(call.email)

DoorInv == PageInv /\ CallInv /\ RefusedForTheAcademy
===============================================================================
