------------------------------- MODULE Accounts -------------------------------
(***************************************************************************)
(* How people get their accounts: invitations, sign-up with a password,    *)
(* sign-in through a provider (services.accept_invite, authenticate_oauth, *)
(* invites.py), and what administrators do to accounts.                    *)
(*                                                                         *)
(* A request that reads and then writes is two steps, with what other      *)
(* requests commit in between; its writes are one transaction, which the   *)
(* constraints of the database may refuse as a whole.  A person has one    *)
(* e-mail address and one account at the provider, which reports the       *)
(* address of those in Verified only.  The organisation that an admin      *)
(* invitation creates has the code of the invitation as its name.          *)
(***************************************************************************)
EXTENDS Naturals, FiniteSets

CONSTANTS
  People, Nobody,
  Verified,      \* people whose provider vouches for their address
  Names,         \* user names
  Founder,       \* the name of the administrator that is there
  Codes, Home,   \* invitations; the organisation that is there
  Requests,      \* server threads
  MaxMembers,    \* Org.max_members
  MaxProfiles,   \* bound: profiles ever created
  MaxEdits       \* bound: what administrators change

AccountsAssumption ==
  /\ Verified \subseteq People /\ Nobody \notin People /\ Home \notin Codes
  /\ Founder \in Names
  /\ MaxMembers \in Nat /\ MaxProfiles \in Nat \ {0} /\ MaxEdits \in Nat

VARIABLES
  profile,   \* profile[i]: the i-th profile created
  links,     \* oauth_accounts
  invite,    \* invite[c]
  request,   \* request[r]: what it has read
  crowded,   \* history: codes and organisations whose sign-ups overlapped
  edits

vars == <<profile, links, invite, request, crowded, edits>>

Ids  == 1..MaxProfiles
Orgs == Codes \cup {Home}

Profile == [state : {"free", "live", "deleted"}, org : Orgs, name : Names,
            email : People \cup {Nobody}, human : BOOLEAN, admin : BOOLEAN,
            via   : {"founder", "password", "provider", "admin"},  \* history
            who   : People \cup {Nobody}]                          \* history
Free == [state |-> "free", org |-> Home, name |-> Founder, email |-> Nobody,
         human |-> FALSE, admin |-> FALSE, via |-> "admin", who |-> Nobody]

Invite == [state : {"none", "open", "cancelled"}, org : Orgs, expired : BOOLEAN,
           accounts : SUBSET Ids,   \* accepted_profile_id, one after the other
           late     : BOOLEAN]      \* history: an account after the cancel
Unissued == [state |-> "none", org |-> Home, expired |-> FALSE, accounts |-> {}, late |-> FALSE]

Request == [kind : {"idle", "accept", "register", "link", "cancel"}, person : People \cup {Nobody},
            code : Orgs, name : Names, id : {0} \cup Ids]
Idle == [kind |-> "idle", person |-> Nobody, code |-> Home, name |-> Free.name, id |-> 0]

-----------------------------------------------------------------------------
Live == {i \in Ids : profile[i].state = "live"}
Owner(p)   == {i \in Live : profile[i].email = p}
Named(n)   == {i \in Live : profile[i].name = n}
Linked(p)  == {i \in Ids : <<p, i>> \in links}
NextId     == {i \in Ids : profile[i].state = "free" /\ \A j \in Ids : profile[j].state = "free" => i <= j}

(* An admin invitation is for the organisation that it will create.        *)
ForAdmin(c) == invite[c].org = c
Founded(o)  == o = Home \/ \E i \in Ids : profile[i].state # "free" /\ profile[i].org = o

(* Mutant of Room: the founder counts as a member too late.                *)
RoomForOneMore(o) ==
  Cardinality({i \in Live : profile[i].org = o /\ profile[i].human}) <= MaxMembers + 1

(* _assert_member_capacity: humans beyond the founding admin.              *)
Room(o) == Cardinality({i \in Live : profile[i].org = o /\ profile[i].human}) <= MaxMembers

Valid(c) == /\ invite[c].state = "open" /\ ~invite[c].expired /\ invite[c].accounts = {}
            /\ ~ForAdmin(c) => Room(invite[c].org)

Keep(r) == request' = [request EXCEPT ![r] = Idle]
Asks(r, kind, p, c, n, i) ==
  request' = [request EXCEPT ![r] = [kind |-> kind, person |-> p, code |-> c, name |-> n, id |-> i]]

(* Other sign-ups in flight with this invitation, or for its organisation. *)
Signups(r) == {s \in Requests \ {r} : request[s].kind \in {"accept", "register"}}
Overlaps(r, c) == (IF \E s \in Signups(r) : request[s].code = c THEN {c} ELSE {})
                  \cup {invite[request[s].code].org : s \in {t \in Signups(r) :
                          invite[request[t].code].org = invite[c].org}}

Edits == edits < MaxEdits /\ edits' = edits + 1

-----------------------------------------------------------------------------
Init ==
  /\ profile = [i \in Ids |-> IF i = 1 THEN [Free EXCEPT !.state = "live", !.human = TRUE,
                                                         !.admin = TRUE, !.via = "founder"]
                              ELSE Free]
  /\ links = {} /\ invite = [c \in Codes |-> Unissued]
  /\ request = [r \in Requests |-> Idle] /\ crowded = {} /\ edits = 0

(* create_invite: by the operator for an admin, by an admin for a member.  *)
CreateInvite(c, o) ==
  /\ invite[c].state = "none"
  /\ o = c \/ (Founded(o) /\ Room(o))
  /\ invite' = [invite EXCEPT ![c].state = "open", ![c].org = o]
  /\ UNCHANGED <<profile, links, request, crowded, edits>>

Expire(c) ==
  /\ Edits
  /\ invite[c].state = "open" /\ ~invite[c].expired
  /\ invite' = [invite EXCEPT ![c].expired = TRUE]
  /\ UNCHANGED <<profile, links, request, crowded>>

(* accept_invite, up to its writes.                                        *)
AcceptReads(r, p, c, n) ==
  /\ request[r] = Idle /\ Valid(c) /\ Named(n) = {} /\ Owner(p) = {}
  /\ Asks(r, "accept", p, c, n, 0)
  /\ UNCHANGED <<profile, links, invite, crowded, edits>>

(* The address the provider reports: GitHub's primary one, if verified.    *)
Reported(p) == IF p \in Verified THEN p ELSE Nobody

(* authenticate_oauth, up to its writes: a link signs in at once and       *)
(* changes nothing; a known address is linked; anyone else is registered,  *)
(* under a name that nobody has.                                           *)
OAuthLinks(r, p) ==
  /\ request[r] = Idle /\ Linked(p) = {} /\ Reported(p) # Nobody
  /\ \E i \in Owner(p) : Asks(r, "link", p, Home, profile[i].name, i)
  /\ UNCHANGED <<profile, links, invite, crowded, edits>>
OAuthReads(r, p, c, n) ==
  /\ request[r] = Idle /\ Linked(p) = {} /\ (Reported(p) # Nobody => Owner(p) = {})
  /\ Valid(c) /\ Named(n) = {}
  /\ Asks(r, "register", p, c, n, 0)
  /\ UNCHANGED <<profile, links, invite, crowded, edits>>

(* The account of a sign-up.                                               *)
Account(q) ==
  [state |-> "live", org |-> invite[q.code].org, name |-> q.name,
   email |-> IF q.kind = "accept" THEN q.person ELSE Reported(q.person),
   human |-> TRUE, admin |-> ForAdmin(q.code),
   via   |-> IF q.kind = "accept" THEN "password" ELSE "provider", who |-> q.person]

(* Mutant of Refused: the link has a transaction of its own.               *)
RefusedWithoutLink(q) ==
  \/ invite[q.code].state = "cancelled"
  \/ Account(q).email # Nobody /\ Owner(Account(q).email) # {}
  \/ \E i \in Named(q.name) : profile[i].org = invite[q.code].org

(* What the database refuses: an address twice, a name twice in an         *)
(* organisation, a provider's account twice, an invitation that is gone.   *)
Refused(q) ==
  \/ invite[q.code].state = "cancelled"
  \/ Account(q).email # Nobody /\ Owner(Account(q).email) # {}
  \/ \E i \in Named(q.name) : profile[i].org = invite[q.code].org
  \/ q.kind = "register" /\ Linked(q.person) # {}

(* Both sign-ups commit the profile, the spent invitation and the link     *)
(* together, or nothing.                                                   *)
SignupFails(r) == /\ request[r].kind \in {"accept", "register"} /\ Refused(request[r])
                  /\ Keep(r) /\ UNCHANGED <<profile, links, invite, crowded, edits>>
SignupWrites(r) ==
  LET q == request[r] IN
  /\ q.kind \in {"accept", "register"} /\ ~Refused(q)
  /\ \E i \in NextId :
       /\ profile' = [profile EXCEPT ![i] = Account(q)]
       /\ invite' = [invite EXCEPT ![q.code].accounts = @ \cup {i},
                                   ![q.code].late = @ \/ invite[q.code].state = "cancelled"]
       /\ links' = IF q.kind = "register" /\ Linked(q.person) = {}
                   THEN links \cup {<<q.person, i>>} ELSE links
  /\ crowded' = crowded \cup Overlaps(r, q.code)
  /\ Keep(r) /\ UNCHANGED edits

(* The link to a known profile, unless that or the link came in between.   *)
LinkWrites(r) ==
  LET q == request[r] IN
  /\ q.kind = "link"
  /\ links' = IF Linked(q.person) = {} /\ q.id \in Live THEN links \cup {<<q.person, q.id>>}
              ELSE links
  /\ Keep(r) /\ UNCHANGED <<profile, invite, crowded, edits>>

(* cancel_org_invite: read, then deleted.                                  *)
CancelReads(r, c) ==
  /\ request[r] = Idle /\ invite[c].state = "open" /\ invite[c].accounts = {} /\ ~ForAdmin(c)
  /\ Asks(r, "cancel", Nobody, c, Free.name, 0)
  /\ UNCHANGED <<profile, links, invite, crowded, edits>>
CancelWrites(r) ==
  /\ request[r].kind = "cancel"
  /\ invite' = [invite EXCEPT ![request[r].code].state = "cancelled"]
  /\ Keep(r) /\ UNCHANGED <<profile, links, crowded, edits>>

(* create_profile: a person (POST /api/profiles passes the picture where   *)
(* the roles are expected: none is given) or a service account.            *)
CreateProfile(o, n, human) ==
  /\ Founded(o) /\ ~\E i \in Named(n) : profile[i].org = o
  /\ \E i \in NextId : profile' = [profile EXCEPT ![i] =
       [Free EXCEPT !.state = "live", !.org = o, !.name = n, !.human = human]]
  /\ UNCHANGED <<links, invite, request, crowded>>
CreatePerson(o, n)         == Edits /\ CreateProfile(o, n, TRUE)
CreateServiceAccount(o, n) == Edits /\ CreateProfile(o, n, FALSE)

(* update_profile: an address nobody has, or other roles.                  *)
UpdateEmail(i, p) ==
  /\ Edits
  /\ i \in Live /\ profile[i].human /\ Owner(p) = {}
  /\ profile' = [profile EXCEPT ![i].email = p]
  /\ UNCHANGED <<links, invite, request, crowded>>
UpdateRoles(i) ==
  /\ Edits
  /\ i \in Live /\ profile[i].human
  /\ profile' = [profile EXCEPT ![i].admin = ~@]
  /\ UNCHANGED <<links, invite, request, crowded>>

(* delete_profile takes the links along.  (It fails on Postgres when other *)
(* tables name the profile, for instance the login of a daemon.)           *)
Unlinked(i) == {l \in links : l[2] # i}
DeleteProfile(i) ==
  /\ Edits
  /\ i \in Live
  /\ profile' = [profile EXCEPT ![i] = [Free EXCEPT !.state = "deleted", !.org = profile[i].org]]
  /\ links' = Unlinked(i)
  /\ UNCHANGED <<invite, request, crowded>>

Next ==
  \/ \E c \in Codes : Expire(c) \/ \E o \in Orgs : CreateInvite(c, o)
  \/ \E r \in Requests :
       \/ SignupFails(r) \/ SignupWrites(r) \/ LinkWrites(r) \/ CancelWrites(r)
       \/ \E c \in Codes : CancelReads(r, c)
       \/ \E p \in People : \/ OAuthLinks(r, p)
                            \/ \E c \in Codes, n \in Names :
                                 AcceptReads(r, p, c, n) \/ OAuthReads(r, p, c, n)
  \/ \E o \in Orgs, n \in Names : CreatePerson(o, n) \/ CreateServiceAccount(o, n)
  \/ \E i \in Ids : DeleteProfile(i) \/ UpdateRoles(i) \/ \E p \in People : UpdateEmail(i, p)

Spec == Init /\ [][Next]_vars

-----------------------------------------------------------------------------
TypeOK ==
  /\ profile \in [Ids -> Profile] /\ links \subseteq People \X Ids
  /\ invite \in [Codes -> Invite] /\ request \in [Requests -> Request]
  /\ crowded \subseteq Orgs /\ edits \in 0..MaxEdits

(* Whoever signs in twice at once, with a password and a provider, or      *)
(* again after the account was deleted, ends up with one account per       *)
(* address and per provider's account, and no link leads to a profile that *)
(* is gone (authenticate_oauth: "Existing OAuth link ... log in").         *)
OneAccountPerPerson ==
  /\ \A i, j \in Live : i # j => \/ profile[i].email = Nobody
                                 \/ profile[i].email # profile[j].email
  /\ \A p \in People : Cardinality(Linked(p)) <= 1 /\ Linked(p) \subseteq Live
  /\ \A i, j \in Live : i # j /\ profile[i].via = "provider" /\ profile[j].via = "provider"
                          => profile[i].who # profile[j].who

(* An invitation makes one account and an organisation takes in no more    *)
(* than its members, except where sign-ups overlapped, which the code does *)
(* not exclude ("invite already used", "capped by Org.max_members"); and   *)
(* no account is made after the cancel, overlapping or not                 *)
(* (test_cancel_pending_invite_removes_it_and_voids_link).                 *)
InvitesAreSpent ==
  /\ \A c \in Codes \ crowded : Cardinality(invite[c].accounts) <= 1
  /\ \A o \in Orgs \ crowded :
       Cardinality({i \in Live : profile[i].org = o /\ profile[i].via # "admin"}) <= MaxMembers + 1
  /\ \A c \in Codes : ~invite[c].late
=============================================================================
