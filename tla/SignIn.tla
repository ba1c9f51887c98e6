-------------------------------- MODULE SignIn --------------------------------
(***************************************************************************)
(* The sign-in of a computer: `daemon login` and `logout`, `daemon start`  *)
(* and `stop`, the TokenManager of the running daemon (daemon/auth.py,     *)
(* commands/daemon.py), and the rotating refresh tokens of the backend     *)
(* (daemon_auth.py).  The n-th access token and the refresh token issued   *)
(* with it are the pair n.                                                 *)
(*                                                                         *)
(* Threads of one daemon renew under a lock, so a daemon has one renewal   *)
(* in flight.  Commands of the user run one after another.  The pauses     *)
(* between failed renewals and the 90 days a refresh token lasts are left  *)
(* out.                                                                    *)
(***************************************************************************)
EXTENDS Naturals, FiniteSets

CONSTANTS
  Daemons, NoDaemon,   \* processes of the daemon
  MaxPairs,            \* bound: pairs issued
  MaxFaults,           \* bound: faults
  Faults               \* which faults this instance has

AllFaults == {"answer",    \* an answer of the backend is lost
              "backend",   \* the backend restarts
              "account"}   \* the account is archived or loses its admin role

SignInAssumption ==
  /\ NoDaemon \notin Daemons /\ MaxPairs \in Nat \ {0} /\ MaxFaults \in Nat
  /\ Faults \subseteq AllFaults

VARIABLES
  rows,      \* rows[n]: the refresh token n, as the backend keeps it
  admin,     \* the account may run a daemon
  session,   \* the login session of the backend, and the pair it will hand over
  login,     \* the login command, and the pair it was given
  logout,    \* the logout command: the tokens it revokes, or none
  file,      \* credentials.json: a pair, or 0
  pidfile,   \* the daemon it names
  proc,      \* proc[d]: a daemon
  due,       \* pairs whose access token has less than a day left
  harmed,    \* history: a fault, a logout or a stop hit the sign-in
  overlap,   \* history: a daemon that was stopped lived on past the next start
  faults

vars == <<rows, admin, session, login, logout, file, pidfile, proc, due, harmed, overlap, faults>>

Pairs  == 1..MaxPairs
Row    == [family : Pairs, state : {"live", "used", "revoked"}]
Issued == DOMAIN rows

Proc == [pc : {"off", "starting", "idle", "asked", "exchanging", "burning", "answered", "saving"},
         stopping : BOOLEAN,
         pair     : 0..MaxPairs,     \* _token, _refresh_token
         known    : 0..MaxPairs,     \* _file_token; 0: no TokenManager
         new      : 0..MaxPairs,     \* the pair in the answer
         burn     : SUBSET Pairs]    \* the tokens a revocation has found
None == [state |-> "none", pair |-> 0]
Off == [pc |-> "off", stopping |-> FALSE, pair |-> 0, known |-> 0, new |-> 0, burn |-> {}]

Running(d) == proc[d].pc \notin {"off", "starting"}
Live(n)    == n \in Issued /\ rows[n].state = "live"
Family(n)  == {m \in Issued : rows[m].family = rows[n].family}
Next1      == Cardinality(Issued) + 1

Fault(f) == f \in Faults /\ faults < MaxFaults /\ faults' = faults + 1 /\ harmed' = TRUE
NoFault  == UNCHANGED <<faults, harmed>>
Stopping == \E d \in Daemons : proc[d].stopping

Init ==
  /\ rows = <<>> /\ admin = TRUE /\ session = None /\ login = None /\ logout = {}
  /\ file = 0 /\ pidfile = NoDaemon /\ proc = [d \in Daemons |-> Off]
  /\ due = {} /\ harmed = FALSE /\ overlap = FALSE /\ faults = 0

-----------------------------------------------------------------------------
(* The backend.                                                            *)

Minted(family) == [m \in 1..Next1 |-> IF m = Next1 THEN [family |-> family, state |-> "live"]
                                      ELSE rows[m]]

(* _mint, for the token that replaces n.                                   *)
Successor(n) == Minted(rows[n].family)

(* issue: a new family.                                                    *)
Issue == Next1 \in Pairs /\ rows' = Minted(Next1)

(* Mutant of Retire: whoever has read the token as live may retire it.     *)
RetireAnyway(n) == TRUE

(* mark_used: the update counts the rows it finds still live.              *)
Retire(n) == Live(n)

(* exchange, up to the update: the token is read.                          *)
Read(d) ==
  LET n == proc[d].pair IN
  /\ proc[d].pc = "asked"
  /\ proc' = [proc EXCEPT ![d] =
       CASE rows[n].state = "revoked"           -> [@ EXCEPT !.pc = "idle"]
         [] rows[n].state = "used" \/
            (rows[n].state = "live" /\ ~admin)  -> [@ EXCEPT !.pc = "burning", !.burn = Family(n)]
         [] OTHER                               -> [@ EXCEPT !.pc = "exchanging"]]
  /\ UNCHANGED <<rows, admin, session, login, logout, file, pidfile, due, overlap>> /\ NoFault

(* From the update on.  A token that was exchanged twice burns its family. *)
Exchange(d) ==
  LET n == proc[d].pair IN
  /\ proc[d].pc = "exchanging"
  /\ \/ /\ Retire(n) /\ Next1 \in Pairs
        /\ rows' = [Successor(n) EXCEPT ![n].state = "used"]
        /\ proc' = [proc EXCEPT ![d].pc = "answered", ![d].new = Next1]
     \/ /\ ~Retire(n)
        /\ proc' = [proc EXCEPT ![d].pc = "burning", ![d].burn = Family(n)]
        /\ UNCHANGED rows
  /\ UNCHANGED <<admin, session, login, logout, file, pidfile, due, overlap>> /\ NoFault

(* revoke_family updates the rows its statement has found: one that a      *)
(* concurrent exchange commits meanwhile is not among them.                *)
Revoked(S) == [n \in Issued |-> IF n \in S THEN [rows[n] EXCEPT !.state = "revoked"]
                                ELSE rows[n]]

Burn(d) ==
  /\ proc[d].pc = "burning"
  /\ rows' = Revoked(proc[d].burn)
  /\ proc' = [proc EXCEPT ![d].pc = "idle", ![d].burn = {}]
  /\ UNCHANGED <<admin, session, login, logout, file, pidfile, due, overlap>> /\ NoFault

(* The access token runs out in the end.                                   *)
Age(n) ==
  /\ n \in Issued \ due /\ due' = due \cup {n}
  /\ UNCHANGED <<rows, admin, session, login, logout, file, pidfile, proc, overlap>> /\ NoFault

Demote ==
  /\ admin /\ admin' = FALSE /\ Fault("account")
  /\ UNCHANGED <<rows, session, login, logout, file, pidfile, proc, due, overlap>>

(* Login sessions are kept in memory.                                      *)
BackendRestarts ==
  /\ session # None /\ session' = None /\ Fault("backend")
  /\ UNCHANGED <<rows, admin, login, logout, file, pidfile, proc, due, overlap>>

-----------------------------------------------------------------------------
(* The commands.                                                           *)

AtPrompt == login = None /\ logout = {} /\ \A d \in Daemons : proc[d].pc # "starting"

LoginStarts ==
  /\ AtPrompt /\ login' = [None EXCEPT !.state = "waiting"]
  /\ session' = [None EXCEPT !.state = "pending"]
  /\ UNCHANGED <<rows, admin, logout, file, pidfile, proc, due, overlap>> /\ NoFault

(* The admin may press the button twice.                                   *)
Approve ==
  /\ session # None /\ admin
  /\ Issue /\ session' = [state |-> "approved", pair |-> Next1]
  /\ UNCHANGED <<admin, login, logout, file, pidfile, proc, due, overlap>> /\ NoFault

(* The session is dropped as its tokens are handed over.                   *)
Poll ==
  /\ login.state = "waiting" /\ session.state = "approved"
  /\ session' = None
  /\ \/ login' = session /\ NoFault
     \/ UNCHANGED login /\ Fault("answer")
  /\ UNCHANGED <<rows, admin, logout, file, pidfile, proc, due, overlap>>

LoginEnds ==
  /\ \/ login.state = "approved" /\ file' = login.pair
     \/ login.state = "waiting" /\ session = None /\ UNCHANGED file   \* timed out
  /\ login' = None
  /\ UNCHANGED <<rows, admin, session, logout, pidfile, proc, due, overlap>> /\ NoFault

(* logout revokes the family of the token in the file, if it can, and      *)
(* removes the file.                                                       *)
LogoutStarts ==
  /\ AtPrompt /\ file # 0 /\ logout' = Family(file)
  /\ harmed' = TRUE
  /\ UNCHANGED <<rows, admin, session, login, file, pidfile, proc, due, faults, overlap>>

LogoutEnds ==
  /\ logout # {} /\ rows' = Revoked(logout)
  /\ logout' = {} /\ file' = 0
  /\ UNCHANGED <<admin, session, login, pidfile, proc, due, overlap>> /\ NoFault

(* Mutant of Refused: a daemon is started beside the one that runs.        *)
NeverRefused == FALSE

(* _start_impl: a daemon that the pid file names and that is alive.        *)
Refused == pidfile # NoDaemon /\ Running(pidfile)

(* The parent reads the token and hands it to the child.                   *)
Start(d) ==
  /\ AtPrompt /\ proc[d] = Off /\ file # 0 /\ ~Refused
  /\ proc' = [proc EXCEPT ![d] = [Off EXCEPT !.pc = "starting", !.pair = file]]
  /\ pidfile' = d /\ overlap' = (overlap \/ Stopping)
  /\ UNCHANGED <<rows, admin, session, login, logout, file, due>> /\ NoFault

(* from_credentials: a token that is no longer the one in the file counts  *)
(* as a static key and is never renewed.                                   *)
Started(d) ==
  /\ proc[d].pc = "starting"
  /\ proc' = [proc EXCEPT ![d].pc = "idle",
                          ![d].known = IF file = proc[d].pair THEN file ELSE 0]
  /\ UNCHANGED <<rows, admin, session, login, logout, file, pidfile, due, overlap>> /\ NoFault

(* _stop_impl.                                                             *)
Stop ==
  /\ AtPrompt /\ pidfile # NoDaemon
  /\ pidfile' = NoDaemon
  /\ proc' = [proc EXCEPT ![pidfile].stopping = Running(pidfile)]
  /\ UNCHANGED <<rows, admin, session, login, logout, file, due, overlap>> /\ NoFault

(* The daemon ends, in the middle of whatever its socket thread is doing,  *)
(* and _run_daemon removes the pid file, whoever's it is.                  *)
Exit(d) ==
  /\ proc[d].stopping
  /\ proc' = [proc EXCEPT ![d] = Off] /\ pidfile' = NoDaemon
  /\ harmed' = (harmed \/ proc[d].pc # "idle")
  /\ UNCHANGED <<rows, admin, session, login, logout, file, due, faults, overlap>>

-----------------------------------------------------------------------------
(* The TokenManager.                                                       *)

(* _adopt_from_file: what is there is not what this daemon put or found.   *)
NewSignIn(d) == file \notin {0, proc[d].known}

(* _renew, before a token runs out and after a 401.                        *)
Renew(d) ==
  /\ proc[d].pc = "idle" /\ proc[d].known # 0 /\ proc[d].pair \in due
  /\ proc' = [proc EXCEPT ![d] =
                IF NewSignIn(d) THEN [@ EXCEPT !.pair = file, !.known = file]
                ELSE [@ EXCEPT !.pc = "asked"]]
  /\ UNCHANGED <<rows, admin, session, login, logout, file, pidfile, due, overlap>> /\ NoFault

(* The answer arrives and replaces the pair in memory, or it is lost: the  *)
(* daemon will ask again with the token it has.                            *)
Answer(d) ==
  /\ proc[d].pc = "answered"
  /\ \/ /\ proc' = [proc EXCEPT ![d].pc = "saving", ![d].pair = proc[d].new, ![d].new = 0]
        /\ NoFault
     \/ /\ proc' = [proc EXCEPT ![d].pc = "idle", ![d].new = 0]
        /\ Fault("answer")
  /\ UNCHANGED <<rows, admin, session, login, logout, file, pidfile, due, overlap>>

(* Mutant of Kept: the file keeps what it holds.                           *)
KeptAsIs(d) == file

(* What _save leaves in the file: it writes over a sign-in that came       *)
(* meanwhile, and anew after a logout.                                     *)
Kept(d) == proc[d].pair

Save(d) ==
  /\ proc[d].pc = "saving"
  /\ file' = Kept(d)
  /\ proc' = [proc EXCEPT ![d].pc = "idle", ![d].known = proc[d].pair]
  /\ UNCHANGED <<rows, admin, session, login, logout, pidfile, due, overlap>> /\ NoFault

-----------------------------------------------------------------------------
Command == LoginStarts \/ LoginEnds \/ LogoutStarts \/ LogoutEnds \/ Stop

Manager(d) == Renew(d) \/ Read(d) \/ Exchange(d) \/ Burn(d) \/ Answer(d) \/ Save(d)

Next ==
  \/ Command \/ Approve \/ Poll
  \/ \E d \in Daemons : Start(d) \/ Started(d) \/ Exit(d) \/ Manager(d)
  \/ \E n \in Pairs : Age(n)
  \/ Demote \/ BackendRestarts

Spec == Init /\ [][Next]_vars

-----------------------------------------------------------------------------
(* Properties.                                                             *)

(* The types; and a token that is used up has a successor of its login.    *)
TypeOK ==
  /\ Issued = 1..Cardinality(Issued) /\ \A n \in Issued : rows[n] \in Row
  /\ proc \in [Daemons -> Proc] /\ pidfile \in Daemons \cup {NoDaemon}
  /\ session.state \in {"none", "pending", "approved"} /\ session.pair \in {0} \cup Issued
  /\ login.state \in {"none", "waiting", "approved"} /\ login.pair \in {0} \cup Issued
  /\ logout \subseteq Issued /\ file \in {0} \cup Issued /\ due \subseteq Issued
  /\ {admin, harmed, overlap} \subseteq BOOLEAN /\ faults \in 0..MaxFaults
  /\ \A d \in Daemons : proc[d].pair \in {0} \cup Issued
  /\ \A n \in Issued : rows[n].state = "used" => \E m \in Family(n) : m > n

(* A refresh token is worth one exchange: of the tokens of one login,      *)
(* however many requests present them, at most one is live.                *)
OneLivePerLogin ==
  \A m, n \in Issued : Live(m) /\ Live(n) /\ rows[m].family = rows[n].family => m = n

(* "A daemon that keeps running stays signed in indefinitely", where no    *)
(* fault, logout or stop cuts a renewal and one daemon runs: between       *)
(* renewals its token can be exchanged, or the file holds a new sign-in    *)
(* for it to pick up.                                                      *)
StaysSignedIn ==
  ~harmed /\ ~overlap => \A d \in Daemons :
    proc[d].pc = "idle" /\ proc[d].known # 0 => Live(proc[d].pair) \/ NewSignIn(d)

(* One daemon at a time serves this home, if the one before was gone when  *)
(* it started.                                                             *)
OneDaemon ==
  ~overlap => \A d, e \in Daemons : Running(d) /\ Running(e) /\ ~proc[d].stopping /\ ~proc[e].stopping
                          => d = e

(* "A copy leaked or was replayed, so the whole family is revoked": of a   *)
(* family of which something is revoked, nothing is live.                  *)
FamiliesBurnWhole ==
  \A m, n \in Issued : rows[m].family = rows[n].family /\ rows[m].state = "revoked" => ~Live(n)
===============================================================================
