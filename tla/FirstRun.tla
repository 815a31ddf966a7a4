------------------------------ MODULE FirstRun ------------------------------
(***************************************************************************)
(* A device from its first start on: the wizard sets the password          *)
(* (web/routes/setup.py) and calibrates; a gate sends other requests to    *)
(* the wizard until both are done (web/middleware.py); a session is a      *)
(* cookie signed with the key of auth.json (web/deps.py), by which         *)
(* protected requests are let in: stream tokens (web/routes/settings.py)   *)
(* and calibration.  The gate runs on the event loop, everything else in   *)
(* threadpool threads, and nothing keeps them apart.                       *)
(***************************************************************************)
EXTENDS Naturals, FiniteSets

CONSTANTS
    Requests,       \* requests that can be in flight at once
    Nobody,         \* no holder of SQLite's write lock
    Foreign,        \* the key of a cookie of an earlier installation
    MaxKeys,        \* bound: keys drawn
    MaxTokens,      \* bound: stream tokens drawn
    MaxCals         \* bound: calibrations saved

ASSUME RequestsAssumption == IsFiniteSet(Requests) /\ Nobody \notin Requests
ASSUME BoundsAssumption == {MaxKeys, MaxTokens, MaxCals} \subseteq Nat
ASSUME ForeignAssumption == Foreign \in Nat /\ Foreign > MaxKeys

VARIABLES
    file, data, keys, tokens,                                   \* AuthStore
    saved, active, writer, scale, base, measured, undercut,     \* Calibrations
    pc,             \* pc[r]: where request r is
    want,           \* want[r]: what it asks for
    cookie,         \* cookie[r]: the key its cookie is signed with, or 0
    token,          \* token[r]: the token_id that it mints or revokes, or 0
    was,            \* history: was[r]: all was set up when it came
    issued,         \* history: the keys that cookies were signed with
    granted,        \* history: tokens minted and not revoked since
    crossed,        \* history: a rewrite of auth.json began during another
    founded         \* history: two requests that found no key have overlapped

INSTANCE AuthStore
INSTANCE Calibrations

auth == <<file, data, keys, tokens>>
calibration == <<saved, active, writer, scale, base, measured, undercut>>
requests == <<pc, want, cookie, token, was>>
past == <<issued, granted, crossed, founded>>
vars == <<file, data, keys, tokens, saved, active, writer, scale, base, measured,
          undercut, pc, want, cookie, token, was, issued, granted, crossed, founded>>

Ask == {"setup", "login", "page", "mint", "revoke"} \cup Direction
Place == {"idle", "check", "verify", "set", "gate", "gateCalibration", "redirected",
          "session", "page", "mint", "revoke", "truncate", "write", "truncateKey",
          "writeKey", "issue", "save", "commit"} \cup Direction

Init ==
    /\ AuthInit /\ CalibrationsInit
    /\ pc = [r \in Requests |-> "idle"]
    /\ want = [r \in Requests |-> "page"]
    /\ cookie = [r \in Requests |-> 0]
    /\ token = [r \in Requests |-> 0]
    /\ was = [r \in Requests |-> FALSE]
    /\ issued = {} /\ granted = {} /\ crossed = FALSE /\ founded = FALSE

\* "if no admin password OR no active calibration exists"
SetUp == issued # {} /\ IsCalibrated

Goto(r, place) == pc' = [pc EXCEPT ![r] = place]
Proceed(r, place) ==
    Goto(r, place) /\ UNCHANGED <<auth, calibration, want, cookie, token, was, past>>
\* The answer; what the handler had read is gone with it.
Forget(r) ==
    /\ Goto(r, "idle")
    /\ want' = [want EXCEPT ![r] = "page"]
    /\ cookie' = [cookie EXCEPT ![r] = 0]
    /\ token' = [token EXCEPT ![r] = 0]
    /\ was' = [was EXCEPT ![r] = FALSE]
Answer(r) == Forget(r) /\ UNCHANGED <<auth, calibration, past>>

\* A request comes in; measure, setup and login pass the gate.  One without a
\* cookie is turned away as one with a foreign cookie is, and reads less.
Entry(ask) ==
    CASE ask = "setup" -> "check"
      [] ask = "login" -> "verify"
      [] ask \in Direction -> "session"
      [] OTHER -> "gate"
Arrive(r) == \E ask \in Ask, key \in issued \cup {0, Foreign} :
    /\ pc[r] = "idle"
    /\ ask \in {"setup", "login"} <=> key = 0
    /\ Goto(r, Entry(ask))
    /\ want' = [want EXCEPT ![r] = ask]
    /\ cookie' = [cookie EXCEPT ![r] = key]
    /\ was' = [was EXCEPT ![r] = SetUp]
    /\ UNCHANGED <<auth, calibration, token, past>>

\* json.loads raises: 500, wherever auth.json is read.
Unreadable(r) ==
    /\ pc[r] \in {"check", "verify", "set", "gate", "session", "mint", "revoke", "issue"}
    /\ ~Readable
    /\ Answer(r)

---------------------------------------------------------------------------
(* first_run_gate: two reads, one after the other.                         *)

GatePassword(r) ==
    /\ pc[r] = "gate" /\ Readable
    /\ Proceed(r, IF Read.password THEN "gateCalibration" ELSE "redirected")

GateCalibration(r) ==
    /\ pc[r] = "gateCalibration"
    /\ Proceed(r, IF IsCalibrated THEN "session" ELSE "redirected")

\* The browser follows to /setup.
Redirected(r) == pc[r] = "redirected" /\ Answer(r)

---------------------------------------------------------------------------
(* require_session, and how a rewrite of auth.json begins and ends.        *)

Rewriting(q) == pc[q] \in {"truncate", "write", "truncateKey", "writeKey"}
\* r has read the mapping and makes d of it.
Begin(r, d, place) ==
    LET others == {q \in Requests \ {r} : Rewriting(q)}
        draws == Read.key = 0
    IN  /\ Readable
        /\ draws => keys < MaxKeys
        /\ data' = [data EXCEPT ![r] = d]
        /\ keys' = IF draws THEN keys + 1 ELSE keys
        /\ crossed' = (crossed \/ others # {})
        /\ founded' = (founded \/ (draws /\ others # {}))
        /\ Goto(r, place)
        /\ UNCHANGED <<file, calibration, want, cookie, was, issued, granted>>

\* secret_key draws one when there is none; the cookie of an earlier
\* installation asks for it before there is any.
Session(r) ==
    /\ pc[r] = "session"
    /\ \/ /\ Readable /\ Read.key \notin {0, cookie[r]}
          /\ Answer(r)
       \/ /\ Readable /\ Read.key = cookie[r]
          /\ Goto(r, want[r])
          /\ cookie' = [cookie EXCEPT ![r] = 0]
          /\ UNCHANGED <<auth, calibration, want, token, was, past>>
       \/ /\ Read.key = 0
          /\ Begin(r, WithKey(Read, keys + 1), "truncateKey")
          /\ UNCHANGED <<tokens, token>>

TruncateFile(r, from, to) ==
    /\ pc[r] = from
    /\ Truncate(r)
    /\ Goto(r, to)
    /\ UNCHANGED <<data, keys, tokens, calibration, want, cookie, token, was, past>>
StartWrite(r) == TruncateFile(r, "truncate", "write")
StartWriteKey(r) == TruncateFile(r, "truncateKey", "writeKey")

\* The cookie is not signed with the new key: 401.
EndWriteKey(r) ==
    /\ pc[r] = "writeKey"
    /\ Write(r)
    /\ data' = [data EXCEPT ![r] = Nothing]
    /\ Forget(r)
    /\ UNCHANGED <<keys, tokens, calibration, past>>

EndWrite(r) ==
    /\ pc[r] = "write"
    /\ Write(r)
    /\ data' = [data EXCEPT ![r] = Nothing]
    /\ IF want[r] = "setup"
       THEN Goto(r, "issue") /\ UNCHANGED <<want, cookie, token, was, granted>>
       ELSE Forget(r) /\ granted' = IF want[r] = "mint" THEN granted \cup {token[r]}
                                    ELSE granted \ {token[r]}
    /\ UNCHANGED <<keys, tokens, calibration, issued, crossed, founded>>

---------------------------------------------------------------------------
(* The wizard's password page, and the login.                              *)

\* setup_password answers 409 when there is a password; or asks later.
CheckPassword(r) ==
    /\ pc[r] = "check" /\ Readable
    /\ IF Read.password THEN Answer(r) ELSE Proceed(r, "set")

SetupPassword(r) ==
    /\ pc[r] = "set"
    /\ Begin(r, SetPassword(Read), "truncate")
    /\ UNCHANGED <<tokens, token>>

\* verify_password: the password is right or not, or there is none.
Login(r) ==
    /\ pc[r] = "verify" /\ Readable
    /\ Answer(r) \/ (Read.password /\ Proceed(r, "issue"))

\* issue_session: there is a key since the password was set.
IssueSession(r) ==
    /\ pc[r] = "issue" /\ Readable
    /\ issued' = issued \cup {Read.key}
    /\ Forget(r)
    /\ UNCHANGED <<auth, calibration, granted, crossed, founded>>

---------------------------------------------------------------------------
(* Behind the session.                                                     *)

Page(r) == pc[r] = "page" /\ Answer(r)

MintToken(r) ==
    /\ pc[r] = "mint" /\ tokens < MaxTokens
    /\ tokens' = tokens + 1
    /\ token' = [token EXCEPT ![r] = tokens + 1]
    /\ Begin(r, Mint(Read), "truncate")

RevokeToken(r) == \E t \in 1..tokens :
    /\ pc[r] = "revoke"
    /\ token' = [token EXCEPT ![r] = t]
    /\ Begin(r, Revoke(Read, t), "truncate")
    /\ UNCHANGED tokens

MeasureScale(r) ==
    /\ pc[r] \in Direction /\ saved < MaxCals
    /\ Measure(r, pc[r])
    /\ Goto(r, "save")
    /\ UNCHANGED <<auth, want, cookie, token, was, past>>

SaveCalibration(r) ==
    /\ pc[r] = "save"
    /\ Deactivate(r)
    /\ Goto(r, "commit")
    /\ UNCHANGED <<auth, want, cookie, token, was, past>>

\* "database is locked"
GiveUpSave(r) ==
    /\ pc[r] = "save"
    /\ SaveTimesOut(r)
    /\ Forget(r)
    /\ UNCHANGED <<auth, past>>

EndSave(r) ==
    /\ pc[r] = "commit"
    /\ CommitMeasure(r, want[r]) \/ Rollback(r)
    /\ Forget(r)
    /\ UNCHANGED <<auth, past>>

---------------------------------------------------------------------------
\* The process is killed and started again: the file stays as it is.
Crash ==
    /\ \E r \in Requests : pc[r] # "idle"
    /\ pc' = [r \in Requests |-> "idle"]
    /\ want' = [r \in Requests |-> "page"]
    /\ cookie' = [r \in Requests |-> 0]
    /\ token' = [r \in Requests |-> 0]
    /\ was' = [r \in Requests |-> FALSE]
    /\ data' = [r \in Requests |-> Nothing]
    /\ writer' = Nobody
    /\ scale' = [r \in Requests |-> Unmeasured]
    /\ base' = [r \in Requests |-> 0]
    /\ UNCHANGED <<file, keys, tokens, saved, active, measured, undercut, past>>

CommandLine ==
    /\ saved < MaxCals
    /\ CliCalibrate
    /\ UNCHANGED <<auth, requests, past>>

Handle(r) ==
    \/ Arrive(r) \/ Unreadable(r)
    \/ GatePassword(r) \/ GateCalibration(r) \/ Redirected(r)
    \/ Session(r) \/ StartWrite(r) \/ StartWriteKey(r) \/ EndWrite(r) \/ EndWriteKey(r)
    \/ CheckPassword(r) \/ SetupPassword(r) \/ Login(r) \/ IssueSession(r)
    \/ Page(r) \/ MintToken(r) \/ RevokeToken(r)
    \/ MeasureScale(r) \/ SaveCalibration(r) \/ GiveUpSave(r) \/ EndSave(r)

Next == (\E r \in Requests : Handle(r)) \/ Crash \/ CommandLine

Spec == Init /\ [][Next]_vars

---------------------------------------------------------------------------
(* Properties.                                                             *)

TypeOK ==
    /\ file \in [shape : Shape, holds : Content]
    /\ data \in [Requests -> Content]
    /\ keys \in Nat /\ tokens \in Nat
    /\ saved \in Nat /\ active \subseteq Calibration
    /\ writer \in Requests \cup {Nobody}
    /\ scale \in [Requests -> Scale] /\ base \in [Requests -> Nat]
    /\ measured \in Scale /\ undercut \in BOOLEAN
    /\ pc \in [Requests -> Place] /\ want \in [Requests -> Ask]
    /\ cookie \in [Requests -> Nat] /\ token \in [Requests -> Nat]
    /\ was \in [Requests -> BOOLEAN]
    /\ issued \subseteq Nat /\ granted \subseteq Nat
    /\ crossed \in BOOLEAN /\ founded \in BOOLEAN

\* A session stays valid: whatever is rewritten, read half written or cut off
\* by a crash, auth.json cannot be read or has the key that every cookie was
\* signed with, unless two requests found no key at the same time.
KeyStable ==
    ~founded /\ file.shape = "whole" => \A key \in issued : file.holds.key = key

\* "After which the gate stops redirecting" (web specification, 8.5): a request
\* that came when password and calibration were there is not sent to the
\* wizard, whoever is rewriting the one or the other.
GateStaysOpen ==
    ~founded => \A r \in Requests : pc[r] = "redirected" => ~was[r]

\* The stream tokens are those that were minted and not revoked, unless one
\* rewrite began during another.
TokensKept ==
    ~crossed /\ file.shape = "whole" => file.holds.tokens = granted

\* "The other direction defaults to the same value until separately calibrated"
\* (web specification, 8.7): a direction that was measured keeps its scale when
\* the other is, and exactly one calibration is active, unless a measure was
\* saved over one that it had not read.
ScaleKept ==
    ~undercut => \A d \in Direction : measured[d] # 0 =>
        \E cal \in active : active = {cal} /\ cal.mm_per_px[d] = measured[d]

---------------------------------------------------------------------------
(* What the documents say and the code does not do (see README.md).        *)

\* "`secret_key` is generated once when the password is first set and used by
\* `itsdangerous` to sign session cookies" (web specification, line 263): all
\* cookies are signed with the key that auth.json has.  Two requests that find
\* none each draw one.
KeyDrawnOnce == file.shape = "whole" => issued \subseteq {file.holds.key}
=============================================================================
