--------------------------- MODULE FirstRunProofs ---------------------------
(***************************************************************************)
(* What holds of a device that is being set up for every number of         *)
(* concurrent requests and every bound.                                    *)
(***************************************************************************)
EXTENDS FirstRun, TLAPS

Behind == {"page", "mint", "revoke"} \cup Direction
Positive == [Direction -> Nat \ {0}]

(* What a request at a place has asked for, and what it is about to save.  *)
Route ==
    \A r \in Requests :
        /\ pc[r] \in {"gate", "gateCalibration", "session"} => want[r] \in Behind
        /\ pc[r] \in Direction => want[r] = pc[r]
        /\ pc[r] \in {"save", "commit"} => want[r] \in Direction /\ scale[r] \in Positive

TypeInv == TypeOK /\ Route

LEMMA PlaceNames ==
    /\ \A ask \in Ask : Entry(ask) \in Place
    /\ \A ask \in Ask : Entry(ask) \in {"gate", "session"} => ask \in Behind
    /\ \A ask \in Ask : Entry(ask) \in {"check", "verify", "gate", "session"}
    /\ \A ask \in Ask : Entry(ask) = "check" => ask = "setup"
    /\ Behind \subseteq Place /\ {"setup", "login"} \cap Behind = {}
    /\ Direction \cap {"check", "verify", "gate", "gateCalibration", "session", "save",
                       "commit", "idle", "set", "redirected", "truncate", "write",
                       "truncateKey", "writeKey", "issue", "page", "mint", "revoke"} = {}
  BY DEF Ask, Entry, Place, Behind, Direction

LEMMA NothingType == Nothing \in Content
  BY DEF Nothing, Content

LEMMA TypeInit == Init => TypeInv
  <1> SUFFICES ASSUME Init PROVE TypeInv
    OBVIOUS
  <1>1. TypeOK
    BY NothingType DEF Init, AuthInit, CalibrationsInit, TypeOK, Shape, Unmeasured, Scale, Place, Ask
  <1>2. Route
    BY DEF Init, Route, Direction
  <1> QED BY <1>1, <1>2 DEF TypeInv

(* A request goes on or is answered, and nothing else happens.             *)
LEMMA TypeMove ==
    ASSUME TypeInv, NEW r \in Requests, NEW place \in Place,
           Proceed(r, place) \/ Answer(r),
           place \in {"gate", "gateCalibration", "session"} => want[r] \in Behind,
           place \notin Direction \cup {"save", "commit"}
    PROVE  TypeInv'
  <1>a. Direction \cap {"gate", "gateCalibration", "session", "save", "commit", "idle"} = {}
        /\ "page" \in Ask /\ "idle" \in Place
    BY DEF Direction, Ask, Place
  <1>1. CASE Proceed(r, place)
    <2>1. TypeOK'
      BY <1>1 DEF TypeInv, TypeOK, Proceed, Goto, auth, calibration, past
    <2>2. Route'
      BY <1>1 DEF TypeInv, TypeOK, Route, Proceed, Goto, auth, calibration, past
    <2> QED BY <2>1, <2>2 DEF TypeInv
  <1>2. CASE Answer(r)
    <2>1. TypeOK'
      BY <1>2, <1>a DEF TypeInv, TypeOK, Answer, Forget, Goto, auth, calibration, past
    <2>2. Route'
      BY <1>2, <1>a DEF TypeInv, TypeOK, Route, Answer, Forget, Goto, auth, calibration, past
    <2> QED BY <2>1, <2>2 DEF TypeInv
  <1> QED BY <1>1, <1>2

(* _write leaves a well-formed file.                                       *)
LEMMA WriteType ==
    ASSUME NEW r \in Requests, data \in [Requests -> Content], Write(r)
    PROVE  file' \in [shape : Shape, holds : Content]
  BY NothingType DEF Write, Whole, Mixed, Shape

(* Reading the mapping and changing it gives a mapping.                    *)
LEMMA MappingType ==
    ASSUME TypeOK, NEW d \in Content
    PROVE  /\ Read \in Content /\ Read.key \in Nat
           /\ WithKey(d, keys + 1) \in Content
           /\ SetPassword(d) \in Content
           /\ Mint(d) \in Content
           /\ \A t \in Nat : Revoke(d, t) \in Content
  <1>1. Read \in Content /\ Read.key \in Nat /\ keys + 1 \in Nat /\ tokens + 1 \in Nat
    BY DEF TypeOK, Read, Content
  <1>2. WithKey(d, keys + 1) \in Content
    BY <1>1 DEF Content, WithKey
  <1>3. SetPassword(d) \in Content
    BY <1>2 DEF Content, SetPassword
  <1>4. Mint(d) \in Content
    BY <1>1 DEF Content, Mint
  <1>5. ASSUME NEW t \in Nat PROVE Revoke(d, t) \in Content
    BY DEF Content, Revoke
  <1> QED BY <1>1, <1>2, <1>3, <1>4, <1>5

LEMMA BeginType ==
    ASSUME TypeInv, NEW r \in Requests, NEW d \in Content,
           NEW place \in {"truncate", "truncateKey"}, Begin(r, d, place),
           tokens' \in Nat, token' \in [Requests -> Nat]
    PROVE  TypeInv'
  <1>1. keys' \in Nat
    BY DEF Begin, TypeInv, TypeOK
  <1>2. place \in Place /\ place \notin Direction
    BY DEF Place, Direction
  <1>3. TypeOK'
    BY <1>1, <1>2 DEF TypeInv, TypeOK, Begin, Goto, calibration
  <1>4. Route'
    BY <1>2 DEF TypeInv, TypeOK, Route, Begin, Goto, calibration
  <1> QED BY <1>3, <1>4 DEF TypeInv

(* The two scales that a measure saves are those of real measures.         *)
LEMMA MeasuredType ==
    ASSUME NEW old \in Scale, NEW d \in Direction, NEW mm \in Nat \ {0}
    PROVE  Measured(old, d, mm) \in Positive
  BY DEF Scale, Measured, Positive

LEMMA GetActiveType ==
    ASSUME TypeOK
    PROVE  GetActive.mm_per_px \in Scale /\ GetActive.id \in Nat
  <1>1. CASE IsCalibrated
    <2>1. GetActive \in active
      BY <1>1 DEF GetActive, IsCalibrated
    <2> QED BY <2>1 DEF TypeOK, Calibration, Scale
  <1>2. CASE ~IsCalibrated
    BY <1>2 DEF GetActive, NoCalibration, Unmeasured, Scale
  <1> QED BY <1>1, <1>2

LEMMA TypeStep == TypeInv /\ [Next]_vars => TypeInv'
  <1> SUFFICES ASSUME TypeInv, [Next]_vars PROVE TypeInv'
    OBVIOUS
  <1>a. TypeOK /\ Route
    BY DEF TypeInv
  <1>b. \A p \in {"gateCalibration", "redirected", "session", "set", "issue", "write",
                  "writeKey", "idle"} :
          p \in Place /\ p \notin Direction \cup {"save", "commit"}
    BY DEF Place, Direction
  <1>c. "page" \in Ask /\ "idle" \in Place /\ {"save", "commit"} \subseteq Place
    BY DEF Ask, Place
  <1>d. Unmeasured \in Scale /\ Positive \subseteq Scale
    BY DEF Unmeasured, Scale, Positive
  <1>1. ASSUME NEW r \in Requests, Handle(r) PROVE TypeInv'
    <2>1. CASE Arrive(r)
      <3>1. PICK ask \in Ask, key \in issued \cup {0, Foreign} :
              /\ Goto(r, Entry(ask)) /\ want' = [want EXCEPT ![r] = ask]
              /\ cookie' = [cookie EXCEPT ![r] = key]
              /\ was' = [was EXCEPT ![r] = SetUp]
              /\ UNCHANGED <<auth, calibration, token, past>>
        BY <2>1 DEF Arrive
      <3>2. key \in Nat /\ SetUp \in BOOLEAN
        BY <1>a, ForeignAssumption DEF TypeOK, SetUp, IsCalibrated
      <3>3. TypeOK'
        BY <3>1, <3>2, <1>a, PlaceNames DEF TypeOK, Goto, auth, calibration, past
      <3>4. Route'
        BY <3>1, <1>a, PlaceNames DEF TypeOK, Route, Goto, auth, calibration, past
      <3> QED BY <3>3, <3>4 DEF TypeInv
    <2>2. CASE \/ Unreadable(r) \/ Redirected(r) \/ CheckPassword(r) \/ Login(r)
               \/ Page(r) \/ GatePassword(r) \/ GateCalibration(r)
      BY <2>2, <1>a, <1>b, TypeMove
         DEF Unreadable, Redirected, CheckPassword, Login, Page, GatePassword,
             GateCalibration, Route
    <2>3. CASE Session(r)
      <3>1. CASE Answer(r)
        BY <3>1, <1>b, TypeMove
      <3>2. CASE /\ Goto(r, want[r]) /\ pc[r] = "session"
                 /\ cookie' = [cookie EXCEPT ![r] = 0]
                 /\ UNCHANGED <<auth, calibration, want, token, was, past>>
        <4>1. want[r] \in Behind /\ want[r] \in Place
              /\ want[r] \notin {"gate", "gateCalibration", "session", "save", "commit"}
          BY <3>2, <1>a, PlaceNames DEF Route, Behind
        <4>2. TypeOK'
          BY <3>2, <4>1, <1>a DEF TypeOK, Goto, auth, calibration, past
        <4>3. Route'
          BY <3>2, <4>1, <1>a DEF TypeOK, Route, Goto, auth, calibration, past
        <4> QED BY <4>2, <4>3 DEF TypeInv
      <3>3. CASE /\ Begin(r, WithKey(Read, keys + 1), "truncateKey")
                 /\ UNCHANGED <<tokens, token>>
        BY <3>3, <1>a, MappingType, BeginType DEF TypeOK
      <3> QED BY <2>3, <3>1, <3>2, <3>3 DEF Session
    <2>4. CASE StartWrite(r) \/ StartWriteKey(r)
      <3>1. file' \in [shape : Shape, holds : Content]
        BY <2>4, NothingType DEF StartWrite, StartWriteKey, TruncateFile, Truncate, Shape
      <3>2. PICK to \in {"write", "writeKey"} : Goto(r, to)
        BY <2>4 DEF StartWrite, StartWriteKey, TruncateFile
      <3>3. UNCHANGED <<data, keys, tokens, calibration, want, cookie, token, was, past>>
        BY <2>4 DEF StartWrite, StartWriteKey, TruncateFile
      <3>4. TypeOK'
        BY <3>1, <3>2, <3>3, <1>a, <1>b DEF TypeOK, Goto, calibration, past
      <3>5. Route'
        BY <3>2, <3>3, <1>a, <1>b DEF TypeOK, Route, Goto, calibration, past
      <3> QED BY <3>4, <3>5 DEF TypeInv
    <2>5. CASE EndWrite(r)
      <3>1. file' \in [shape : Shape, holds : Content]
        BY <2>5, <1>a, WriteType DEF EndWrite, TypeOK
      <3>2. CASE Goto(r, "issue") /\ UNCHANGED <<want, cookie, token, was, granted>>
        <4>1. TypeOK'
          BY <2>5, <3>1, <3>2, <1>a, <1>b, NothingType DEF EndWrite, TypeOK, Goto, calibration
        <4>2. Route'
          BY <2>5, <3>2, <1>a, <1>b DEF EndWrite, TypeOK, Route, Goto, calibration
        <4> QED BY <4>1, <4>2 DEF TypeInv
      <3>3. CASE /\ Forget(r)
                 /\ granted' = IF want[r] = "mint" THEN granted \cup {token[r]}
                               ELSE granted \ {token[r]}
        <4>0. granted' \subseteq Nat
          <5>1. token[r] \in Nat /\ granted \subseteq Nat
            BY <1>a DEF TypeOK
          <5>2. CASE want[r] = "mint"
            BY <3>3, <5>1, <5>2
          <5>3. CASE want[r] # "mint"
            BY <3>3, <5>1, <5>3
          <5> QED BY <5>2, <5>3
        <4>1. TypeOK'
          BY <2>5, <3>1, <3>3, <4>0, <1>a, <1>c, NothingType
             DEF EndWrite, TypeOK, Forget, Goto, calibration
        <4>2. Route'
          BY <2>5, <3>3, <1>a, <1>b DEF EndWrite, TypeOK, Route, Forget, Goto, calibration
        <4> QED BY <4>1, <4>2 DEF TypeInv
      <3> QED BY <2>5, <3>2, <3>3 DEF EndWrite
    <2>6. CASE EndWriteKey(r)
      <3>1. file' \in [shape : Shape, holds : Content]
        BY <2>6, <1>a, WriteType DEF EndWriteKey, TypeOK
      <3>2. TypeOK'
        BY <2>6, <3>1, <1>a, <1>c, NothingType
           DEF EndWriteKey, TypeOK, Forget, Goto, calibration, past
      <3>3. Route'
        BY <2>6, <1>a, <1>b DEF EndWriteKey, TypeOK, Route, Forget, Goto, calibration
      <3> QED BY <3>2, <3>3 DEF TypeInv
    <2>7. CASE SetupPassword(r)
      BY <2>7, <1>a, MappingType, BeginType DEF SetupPassword, TypeOK
    <2>8. CASE IssueSession(r)
      <3>1. TypeOK'
        BY <2>8, <1>a, <1>c, MappingType
           DEF IssueSession, TypeOK, Forget, Goto, auth, calibration
      <3>2. Route'
        BY <2>8, <1>a, <1>b DEF IssueSession, TypeOK, Route, Forget, Goto, calibration
      <3> QED BY <3>1, <3>2 DEF TypeInv
    <2>9. CASE MintToken(r)
      <3>1. tokens' \in Nat /\ token' \in [Requests -> Nat]
        BY <2>9, <1>a DEF MintToken, TypeOK
      <3>2. Read \in Content
        BY <1>a DEF TypeOK, Read
      <3>3. Mint(Read) \in Content
        BY <3>2, <1>a, MappingType
      <3> QED BY <2>9, <3>1, <3>3, BeginType DEF MintToken
    <2>10. CASE RevokeToken(r)
      <3>1. PICK t \in 1..tokens :
              /\ token' = [token EXCEPT ![r] = t]
              /\ Begin(r, Revoke(Read, t), "truncate")
              /\ UNCHANGED tokens
        BY <2>10 DEF RevokeToken
      <3>2. t \in Nat /\ tokens' \in Nat /\ token' \in [Requests -> Nat]
        BY <3>1, <1>a DEF TypeOK
      <3>3. Read \in Content
        BY <1>a DEF TypeOK, Read
      <3>4. Revoke(Read, t) \in Content
        BY <3>2, <3>3, <1>a, MappingType
      <3> QED BY <3>1, <3>2, <3>4, BeginType
    <2>11. CASE MeasureScale(r)
      <3>1. /\ pc[r] \in Direction /\ want[r] = pc[r] /\ saved + 1 \in Nat \ {0}
            /\ scale' = [scale EXCEPT
                           ![r] = Measured(GetActive.mm_per_px, pc[r], saved + 1)]
            /\ base' = [base EXCEPT ![r] = GetActive.id]
            /\ Goto(r, "save")
            /\ UNCHANGED <<saved, active, writer, measured, undercut>>
            /\ UNCHANGED <<auth, want, cookie, token, was, past>>
        BY <2>11, <1>a DEF MeasureScale, Measure, TypeOK, Route
      <3>2. Measured(GetActive.mm_per_px, pc[r], saved + 1) \in Positive
        BY <3>1, <1>a, GetActiveType, MeasuredType
      <3>3. TypeOK'
        BY <3>1, <3>2, <1>a, <1>c, <1>d, GetActiveType DEF TypeOK, Goto, auth, past
      <3>4. Route'
        BY <3>1, <3>2, <1>a, PlaceNames DEF TypeOK, Route, Goto
      <3> QED BY <3>3, <3>4 DEF TypeInv
    <2>12. CASE SaveCalibration(r)
      <3>1. TypeOK'
        BY <2>12, <1>a, <1>c DEF SaveCalibration, Deactivate, TypeOK, Goto, auth, past
      <3>2. Route'
        BY <2>12, <1>a, PlaceNames DEF SaveCalibration, Deactivate, TypeOK, Route, Goto
      <3> QED BY <3>1, <3>2 DEF TypeInv
    <2>13. CASE GiveUpSave(r)
      <3>1. TypeOK'
        BY <2>13, <1>a, <1>c, <1>d
           DEF GiveUpSave, SaveTimesOut, Drop, TypeOK, Forget, Goto, auth, past
      <3>2. Route'
        BY <2>13, <1>a, <1>b
           DEF GiveUpSave, SaveTimesOut, Drop, TypeOK, Route, Forget, Goto
      <3> QED BY <3>1, <3>2 DEF TypeInv
    <2>14. CASE EndSave(r)
      <3>1. /\ pc[r] = "commit" /\ want[r] \in Direction /\ scale[r] \in Positive
            /\ saved + 1 \in Nat
        BY <2>14, <1>a DEF EndSave, TypeOK, Route
      <3>2. /\ saved' \in Nat /\ active' \subseteq Calibration
            /\ writer' \in Requests \cup {Nobody}
            /\ measured' \in Scale /\ undercut' \in BOOLEAN
        <4>1. CASE CommitMeasure(r, want[r])
          BY <3>1, <4>1, <1>a
             DEF CommitMeasure, Activate, Calibration, Positive, TypeOK, Scale
        <4>2. CASE Rollback(r)
          BY <4>2, <1>a DEF Rollback, TypeOK
        <4> QED BY <2>14, <4>1, <4>2 DEF EndSave
      <3>3. Drop(r) /\ Forget(r) /\ UNCHANGED <<auth, past>>
        BY <2>14 DEF EndSave, CommitMeasure, Rollback
      <3>4. TypeOK'
        BY <3>2, <3>3, <1>a, <1>c, <1>d DEF Drop, TypeOK, Forget, Goto, auth, past
      <3>5. Route'
        BY <3>3, <1>a, <1>b DEF Drop, TypeOK, Route, Forget, Goto
      <3> QED BY <3>4, <3>5 DEF TypeInv
    <2> QED BY <1>1, <2>1, <2>2, <2>3, <2>4, <2>5, <2>6, <2>7, <2>8, <2>9, <2>10,
               <2>11, <2>12, <2>13, <2>14 DEF Handle
  <1>2. CASE Crash
    <2>1. TypeOK'
      BY <1>2, <1>a, <1>c, <1>d, NothingType DEF Crash, TypeOK, past
    <2>2. Route'
      BY <1>2, <1>b DEF Crash, Route
    <2> QED BY <2>1, <2>2 DEF TypeInv
  <1>3. CASE CommandLine
    <2>1. saved + 1 \in Nat \ {0}
      BY <1>a DEF TypeOK
    <2>2. TypeOK'
      BY <1>3, <2>1, <1>a
         DEF CommandLine, CliCalibrate, Activate, Calibration, Scale, TypeOK, auth,
             requests, past
    <2>3. Route'
      BY <1>3, <1>a DEF CommandLine, CliCalibrate, Route, requests
    <2> QED BY <2>2, <2>3 DEF TypeInv
  <1>4. CASE UNCHANGED vars
    BY <1>4, <1>a DEF vars, TypeInv, TypeOK, Route
  <1> QED BY <1>1, <1>2, <1>3, <1>4 DEF Next

LEMMA TypeInvariant == Spec => []TypeInv
  BY TypeInit, TypeStep, PTL DEF Spec

(* The variables of wizard, gate, auth.json and calibrations keep their    *)
(* types, whatever requests are in flight.                                 *)
THEOREM TypeCorrect == Spec => []TypeOK
  <1>1. TypeInv => TypeOK
    BY DEF TypeInv
  <1> QED BY <1>1, TypeInvariant, PTL

---------------------------------------------------------------------------
(* Calibrations.                                                           *)

Saving(r) == pc[r] \in {"save", "commit"}

(* At most one calibration is active, with the id of one that was saved.   *)
OneActive ==
    /\ \A cal \in active : cal.id \in 1..saved
    /\ \A cal, other \in active : cal = other

(* A request that is saving a measure, and has read what is active now, is *)
(* about to keep the scale of the other direction.                         *)
KeepsOther ==
    \A r \in Requests : Saving(r) =>
        /\ base[r] \in 0..saved
        /\ \A cal \in active : cal.id = base[r] =>
             \A d \in Direction \ {want[r]} : scale[r][d] = cal.mm_per_px[d]

(* What was measured is what is active.                                    *)
MeasuredIsActive ==
    ~undercut => \A d \in Direction : measured[d] # 0 =>
        \E cal \in active : cal.mm_per_px[d] = measured[d]

ScaleInv == OneActive /\ KeepsOther /\ MeasuredIsActive

(* A step that saves no measure: what other requests are saving stays.     *)
LEMMA ScaleFrame ==
    ASSUME ScaleInv, UNCHANGED <<saved, active, measured, undercut>>,
           \A r \in Requests : Saving(r)' =>
               /\ Saving(r)
               /\ want'[r] = want[r] /\ scale'[r] = scale[r] /\ base'[r] = base[r]
    PROVE  ScaleInv'
  BY DEF ScaleInv, OneActive, KeepsOther, MeasuredIsActive

LEMMA ActiveOne ==
    ASSUME TypeOK, OneActive
    PROVE  /\ active = {} => GetActive.id = 0
           /\ \A cal \in active : GetActive = cal /\ cal.mm_per_px \in Positive
           /\ GetActive.id \in 0..saved
  <1>1. CASE active = {}
    BY <1>1 DEF GetActive, IsCalibrated, NoCalibration, TypeOK
  <1>2. CASE active # {}
    <2>1. GetActive \in active
      BY <1>2 DEF GetActive, IsCalibrated
    <2> QED BY <1>2, <2>1 DEF OneActive, TypeOK, Calibration, Positive
  <1> QED BY <1>1, <1>2

LEMMA ScaleStep == TypeInv /\ ScaleInv /\ [Next]_vars => ScaleInv'
  <1> SUFFICES ASSUME TypeInv, ScaleInv, [Next]_vars PROVE ScaleInv'
    OBVIOUS
  <1>a. TypeOK /\ Route /\ OneActive /\ KeepsOther /\ MeasuredIsActive
    BY DEF TypeInv, ScaleInv
  <1>b. saved \in Nat /\ pc \in [Requests -> Place] /\ want \in [Requests -> Ask]
        /\ scale \in [Requests -> Scale] /\ base \in [Requests -> Nat]
        /\ measured \in Scale
    BY <1>a DEF TypeOK
  <1>1. ASSUME NEW r \in Requests,
               UNCHANGED calibration, \A q \in Requests \ {r} : UNCHANGED <<pc[q], want[q]>>,
               pc'[r] \notin {"save", "commit"}
        PROVE  ScaleInv'
    BY <1>1, ScaleFrame DEF Saving, calibration
  <1>2. ASSUME NEW r \in Requests, Handle(r) PROVE ScaleInv'
    <2>1. CASE \/ Arrive(r) \/ Unreadable(r) \/ GatePassword(r) \/ GateCalibration(r)
               \/ Redirected(r) \/ Session(r) \/ StartWrite(r) \/ StartWriteKey(r)
               \/ EndWrite(r) \/ EndWriteKey(r) \/ CheckPassword(r)
               \/ SetupPassword(r) \/ Login(r) \/ IssueSession(r) \/ Page(r)
               \/ MintToken(r) \/ RevokeToken(r)
      <3>1. UNCHANGED calibration
        BY <2>1 DEF Arrive, Unreadable, GatePassword, GateCalibration, Redirected,
           Session, StartWrite, StartWriteKey, TruncateFile, EndWrite, EndWriteKey,
           CheckPassword, SetupPassword, Login, IssueSession, Page, MintToken,
           RevokeToken, Proceed, Answer, Begin
      <3>2. \A q \in Requests \ {r} : UNCHANGED <<pc[q], want[q]>>
        BY <2>1, <1>b DEF Arrive, Unreadable, GatePassword, GateCalibration, Redirected,
           Session, StartWrite, StartWriteKey, TruncateFile, EndWrite, EndWriteKey,
           CheckPassword, SetupPassword, Login, IssueSession, Page, MintToken,
           RevokeToken, Proceed, Answer, Begin, Forget, Goto
      <3>3. pc'[r] \notin {"save", "commit"}
        <4>1. CASE Arrive(r)
          BY <4>1, <1>b, PlaceNames DEF Arrive, Goto
        <4>2. CASE Session(r)
          BY <4>2, <1>a, <1>b, PlaceNames
             DEF Session, Answer, Forget, Begin, Goto, Route, Behind
        <4>3. CASE EndWrite(r)
          BY <4>3, <1>b DEF EndWrite, Forget, Goto
        <4> QED BY <2>1, <4>1, <4>2, <4>3, <1>b
              DEF Unreadable, GatePassword, GateCalibration, Redirected, StartWrite,
                  StartWriteKey, TruncateFile, EndWriteKey, CheckPassword,
                  SetupPassword, Login, IssueSession, Page, MintToken, RevokeToken,
                  Proceed, Answer, Begin, Forget, Goto
      <3> QED BY <3>1, <3>2, <3>3, <1>1
    <2>2. CASE MeasureScale(r)
      <3>1. /\ pc[r] \in Direction /\ want[r] = pc[r] /\ want' = want
            /\ scale' = [scale EXCEPT
                           ![r] = Measured(GetActive.mm_per_px, pc[r], saved + 1)]
            /\ base' = [base EXCEPT ![r] = GetActive.id]
            /\ pc' = [pc EXCEPT ![r] = "save"]
            /\ UNCHANGED <<saved, active, measured, undercut>>
        BY <2>2, <1>a DEF MeasureScale, Measure, Goto, Route
      <3>2. \A cal \in active : \A d \in Direction \ {want[r]} :
              scale'[r][d] = cal.mm_per_px[d]
        BY <3>1, <1>a, <1>b, ActiveOne DEF Measured, Positive
      <3>3. base'[r] \in 0..saved
        BY <3>1, <1>a, <1>b, ActiveOne
      <3>4. KeepsOther'
        <4> SUFFICES ASSUME NEW q \in Requests, Saving(q)'
                     PROVE  /\ base'[q] \in 0..saved
                            /\ \A cal \in active : cal.id = base'[q] =>
                                 \A d \in Direction \ {want[q]} :
                                    scale'[q][d] = cal.mm_per_px[d]
          BY <3>1 DEF KeepsOther
        <4>1. CASE q = r
          BY <4>1, <3>2, <3>3
        <4>2. CASE q # r
          BY <4>2, <3>1, <1>a, <1>b DEF KeepsOther, Saving
        <4> QED BY <4>1, <4>2
      <3> QED BY <3>1, <3>4, <1>a DEF ScaleInv, OneActive, MeasuredIsActive
    <2>3. CASE SaveCalibration(r) \/ GiveUpSave(r)
      BY <2>3, <1>b, ScaleFrame
         DEF SaveCalibration, Deactivate, GiveUpSave, SaveTimesOut, Drop, Forget, Goto,
             Saving
    <2>4. CASE EndSave(r)
      <3>1. pc[r] = "commit" /\ Saving(r) /\ want[r] \in Direction /\ Forget(r)
        BY <2>4, <1>a DEF EndSave, Saving, Route
      <3>2. CASE Rollback(r)
        BY <3>1, <3>2, <1>b, ScaleFrame DEF Rollback, Drop, Forget, Goto, Saving
      <3>3. CASE CommitMeasure(r, want[r])
        <4> DEFINE new == [id |-> saved + 1, mm_per_px |-> scale[r]]
        <4>1. /\ saved' = saved + 1 /\ active' = {new}
              /\ measured' = [measured EXCEPT ![want[r]] = scale[r][want[r]]]
              /\ undercut' = (undercut \/ base[r] # GetActive.id)
              /\ \A q \in Requests \ {r} :
                    UNCHANGED <<pc[q], want[q], scale[q], base[q]>>
              /\ ~Saving(r)'
          BY <3>1, <3>3, <1>b
             DEF CommitMeasure, Activate, Drop, Forget, Goto, Saving
        <4>2. OneActive'
          BY <4>1, <1>b DEF OneActive
        <4>3. KeepsOther'
          BY <4>1, <1>a, <1>b DEF KeepsOther, Saving
        <4>4. MeasuredIsActive'
          <5> SUFFICES ASSUME ~undercut', NEW d \in Direction, measured'[d] # 0
                       PROVE  scale[r][d] = measured'[d]
            BY <4>1 DEF MeasuredIsActive
          <5>1. CASE d = want[r]
            BY <4>1, <5>1, <1>b DEF Scale
          <5>2. CASE d # want[r]
            <6>1. measured'[d] = measured[d] /\ ~undercut /\ base[r] = GetActive.id
              BY <4>1, <5>2, <1>b DEF Scale
            <6>2. PICK cal \in active : cal.mm_per_px[d] = measured[d]
              BY <6>1, <1>a DEF MeasuredIsActive
            <6>3. GetActive = cal
              BY <1>a, ActiveOne
            <6> QED BY <3>1, <5>2, <6>1, <6>2, <6>3, <1>a DEF KeepsOther
          <5> QED BY <5>1, <5>2
        <4> QED BY <4>2, <4>3, <4>4 DEF ScaleInv
      <3> QED BY <2>4, <3>2, <3>3 DEF EndSave
    <2> QED BY <1>2, <2>1, <2>2, <2>3, <2>4 DEF Handle
  <1>3. CASE Crash
    BY <1>3, ScaleFrame DEF Crash, Saving, past
  <1>4. CASE CommandLine
    <2> DEFINE new == [id |-> saved + 1, mm_per_px |-> [d \in Direction |-> saved + 1]]
    <2>1. /\ saved' = saved + 1 /\ active' = {new}
          /\ measured' = [d \in Direction |-> saved + 1]
          /\ UNCHANGED <<pc, want, scale, base>>
      BY <1>4 DEF CommandLine, CliCalibrate, Activate, requests
    <2>2. OneActive'
      BY <2>1, <1>b DEF OneActive
    <2>3. KeepsOther'
      BY <2>1, <1>a, <1>b DEF KeepsOther, Saving
    <2>4. MeasuredIsActive'
      BY <2>1 DEF MeasuredIsActive
    <2> QED BY <2>2, <2>3, <2>4 DEF ScaleInv
  <1>5. CASE UNCHANGED vars
    BY <1>5, ScaleFrame DEF vars, Saving
  <1> QED BY <1>2, <1>3, <1>4, <1>5 DEF Next

LEMMA ScaleInit == Init => ScaleInv
  BY DEF Init, CalibrationsInit, ScaleInv, OneActive, KeepsOther, MeasuredIsActive,
     Saving, Unmeasured

(* A direction that was measured keeps its scale when the other is         *)
(* measured, and exactly one calibration is active, unless a measure was   *)
(* saved over one that it had not read (routes/calibration.py: measure).   *)
THEOREM ScaleKeptHolds == Spec => []ScaleKept
  <1>1. ScaleInv => ScaleKept
    BY DEF ScaleInv, ScaleKept, OneActive, MeasuredIsActive
  <1> QED BY <1>1, ScaleInit, ScaleStep, TypeInvariant, PTL DEF Spec

---------------------------------------------------------------------------
(* auth.json.                                                              *)

(* What a request has asked for, and with which cookie, at the places      *)
(* where it matters for auth.json.                                         *)
Asked ==
    \A r \in Requests :
        /\ pc[r] \in {"check", "set"} => want[r] = "setup"
        /\ pc[r] \in {"page", "mint", "revoke"} => want[r] = pc[r]
        /\ pc[r] \in {"truncate", "write"} => want[r] \in {"setup", "mint", "revoke"}
        /\ pc[r] \in {"gate", "gateCalibration", "session"} =>
             cookie[r] \in (issued \cup {Foreign}) \ {0}

LEMMA AskedStep == TypeInv /\ Asked /\ [Next]_vars => Asked'
  <1> SUFFICES ASSUME TypeInv, Asked, [Next]_vars PROVE Asked'
    OBVIOUS
  <1>a. /\ TypeOK /\ Route
        /\ pc \in [Requests -> Place] /\ want \in [Requests -> Ask]
        /\ cookie \in [Requests -> Nat]
    BY DEF TypeInv, TypeOK
  <1>b. Direction \cap {"check", "set", "page", "mint", "revoke", "truncate", "write",
                       "gate", "gateCalibration", "session"} = {}
    BY DEF Direction
  <1>1. ASSUME NEW r \in Requests, Handle(r) PROVE Asked'
    <2>1. CASE Arrive(r)
      <3>1. PICK ask \in Ask, key \in issued \cup {0, Foreign} :
              /\ ask \in {"setup", "login"} <=> key = 0
              /\ pc' = [pc EXCEPT ![r] = Entry(ask)]
              /\ want' = [want EXCEPT ![r] = ask]
              /\ cookie' = [cookie EXCEPT ![r] = key]
              /\ UNCHANGED issued
        BY <2>1 DEF Arrive, Goto, past
      <3>2. /\ Entry(ask) \in {"check", "verify", "gate", "session"}
            /\ Entry(ask) = "check" => ask = "setup"
            /\ Entry(ask) \in {"gate", "session"} => key # 0
        BY <3>1, PlaceNames
      <3> QED BY <3>1, <3>2, <1>a DEF Asked
    <2>2. CASE Session(r)
      <3>1. CASE Answer(r)
        BY <3>1, <1>a DEF Asked, Answer, Forget, Goto, past
      <3>2. CASE /\ Goto(r, want[r]) /\ pc[r] = "session"
                 /\ UNCHANGED <<want, past>> /\ cookie' = [cookie EXCEPT ![r] = 0]
        <4>1. want[r] \in Behind
          BY <3>2, <1>a DEF Route
        <4> QED BY <3>2, <4>1, <1>a, <1>b DEF Asked, Goto, past, Behind
      <3>3. CASE Begin(r, WithKey(Read, keys + 1), "truncateKey")
        BY <3>3, <1>a DEF Asked, Begin, Goto
      <3> QED BY <2>2, <3>1, <3>2, <3>3 DEF Session
    <2>3. CASE SetupPassword(r)
      BY <2>3, <1>a DEF SetupPassword, Begin, Asked, Goto
    <2>4. CASE MintToken(r)
      BY <2>4, <1>a DEF MintToken, Begin, Asked, Goto
    <2>5. CASE RevokeToken(r)
      BY <2>5, <1>a DEF RevokeToken, Begin, Asked, Goto
    <2>6. CASE \/ Unreadable(r) \/ GatePassword(r) \/ GateCalibration(r)
               \/ Redirected(r) \/ CheckPassword(r) \/ Login(r) \/ Page(r)
      BY <2>6, <1>a
         DEF Unreadable, GatePassword, GateCalibration, Redirected, CheckPassword,
             Login, Page, Proceed, Answer, Forget, Goto, past, Asked
    <2>7. CASE StartWrite(r) \/ StartWriteKey(r)
      BY <2>7, <1>a DEF StartWrite, StartWriteKey, TruncateFile, Goto, past, Asked
    <2>8. CASE EndWrite(r) \/ EndWriteKey(r)
      BY <2>8, <1>a DEF EndWrite, EndWriteKey, Forget, Goto, past, Asked
    <2>9. CASE IssueSession(r)
      BY <2>9, <1>a DEF IssueSession, Forget, Goto, Asked
    <2>10. CASE MeasureScale(r) \/ SaveCalibration(r) \/ GiveUpSave(r) \/ EndSave(r)
      BY <2>10, <1>a
         DEF MeasureScale, SaveCalibration, GiveUpSave, EndSave, Forget, Goto, past, Asked
    <2> QED BY <1>1, <2>1, <2>2, <2>3, <2>4, <2>5, <2>6, <2>7, <2>8, <2>9, <2>10
          DEF Handle
  <1>2. CASE Crash
    BY <1>2 DEF Crash, Asked
  <1>3. CASE CommandLine
    BY <1>3 DEF CommandLine, requests, past, Asked
  <1>4. CASE UNCHANGED vars
    BY <1>4 DEF vars, Asked
  <1> QED BY <1>1, <1>2, <1>3, <1>4 DEF Next

(* A file that can be read has a key, and so has what is being written.    *)
FileOK ==
    /\ file.shape = "whole" => file.holds.key # 0
    /\ file.shape # "whole" => file.holds = Nothing
DataOK == \A r \in Requests : Rewriting(r) => data[r].key # 0
(* It was there before anybody had a cookie.                               *)
Past(r) == pc[r] \in {"mint", "revoke", "issue", "write", "writeKey"}
Written ==
    issued # {} \/ (\E r \in Requests : Past(r)) => file.shape # "absent"
(* Without two founders there is one key: the file, everybody who is       *)
(* writing it and every cookie have the same.                              *)
Known(k) ==
    \/ k \in issued
    \/ \E r \in Requests : Rewriting(r) /\ data[r].key = k
    \/ file.shape = "whole" /\ file.holds.key = k
OneKey == ~founded => \A a, b \in Nat : Known(a) /\ Known(b) => a = b

KeyInv == FileOK /\ DataOK /\ Written /\ OneKey

(* A step that leaves auth.json alone.                                     *)
LEMMA KeyFrame ==
    ASSUME KeyInv, UNCHANGED <<file, issued, founded>>,
           \A r \in Requests : Rewriting(r)' => Rewriting(r) /\ data'[r] = data[r],
           \A r \in Requests : Past(r)' => Past(r) \/ file.shape # "absent"
    PROVE  KeyInv'
  BY DEF KeyInv, FileOK, DataOK, Written, OneKey, Known

(* A rewrite begins: with the key of the file, or with the first one.      *)
LEMMA BeginKey ==
    ASSUME TypeInv, KeyInv, NEW r \in Requests, NEW d \in Content,
           NEW place \in {"truncate", "truncateKey"}, Begin(r, d, place),
           d.key = IF Read.key = 0 THEN keys + 1 ELSE Read.key
    PROVE  KeyInv'
  <1>a. /\ data \in [Requests -> Content] /\ pc \in [Requests -> Place]
        /\ keys \in Nat /\ issued \subseteq Nat
        /\ file \in [shape : Shape, holds : Content]
    BY DEF TypeInv, TypeOK
  <1>1. /\ Readable /\ data' = [data EXCEPT ![r] = d]
        /\ pc' = [pc EXCEPT ![r] = place] /\ UNCHANGED <<file, issued>>
        /\ founded' = (founded \/ (Read.key = 0 /\
                          {q \in Requests \ {r} : Rewriting(q)} # {}))
    BY DEF Begin, Goto
  <1>2. d.key # 0 /\ d.key \in Nat
    BY <1>a DEF Read, Content
  <1>3. FileOK' /\ DataOK' /\ Written'
    <2>1. FileOK'
      BY <1>1 DEF KeyInv, FileOK
    <2>2. DataOK'
      BY <1>1, <1>2, <1>a DEF KeyInv, DataOK, Rewriting
    <2>3. Written'
      BY <1>1, <1>a DEF KeyInv, Written, Past
    <2> QED BY <2>1, <2>2, <2>3
  <1>4. \A k \in Nat : Known(k)' => Known(k) \/ k = d.key
    BY <1>1, <1>a DEF Known, Rewriting
  <1>5. CASE Read.key # 0
    <2>1. Known(d.key)
      BY <1>5, <1>a DEF KeyInv, FileOK, Known, Read, Nothing
    <2> QED BY <1>1, <1>2, <1>3, <1>4, <2>1 DEF KeyInv, OneKey
  <1>6. CASE Read.key = 0
    <2>1. file.shape = "absent" /\ issued = {}
      BY <1>1, <1>6 DEF KeyInv, FileOK, Written, Readable, Read
    <2>2. ~founded' => \A q \in Requests \ {r} : ~Rewriting(q)
      BY <1>1, <1>6
    <2>3. ~founded' => \A k \in Nat : Known(k)' => k = d.key
      BY <1>1, <1>a, <2>1, <2>2 DEF Known, Rewriting
    <2> QED BY <1>3, <2>3 DEF KeyInv, OneKey
  <1> QED BY <1>5, <1>6

(* And it ends, or is half done.                                           *)
LEMMA WriteKeyLemma ==
    ASSUME TypeInv, KeyInv, NEW r \in Requests,
           \/ Truncate(r) /\ pc[r] \in {"truncate", "truncateKey"} /\ data' = data
              /\ pc'[r] \in {"write", "writeKey"}
           \/ Write(r) /\ pc[r] \in {"write", "writeKey"} /\ pc'[r] \in {"idle", "issue"},
           UNCHANGED <<issued, founded>>,
           \A q \in Requests \ {r} : pc'[q] = pc[q] /\ data'[q] = data[q]
    PROVE  KeyInv'
  <1>a. /\ data \in [Requests -> Content] /\ file \in [shape : Shape, holds : Content]
    BY DEF TypeInv, TypeOK
  <1>1. Rewriting(r) /\ data[r].key # 0 /\ data[r].key \in Nat /\ Known(data[r].key)
    BY <1>a DEF KeyInv, DataOK, Rewriting, Known, Content
  <1>2. \/ file' = [shape |-> "empty", holds |-> Nothing]
        \/ file' = [shape |-> "mixed", holds |-> Nothing]
        \/ file' = [shape |-> "whole", holds |-> data[r]]
    BY DEF Truncate, Write, Whole, Mixed
  <1>3. FileOK' /\ Written'
    BY <1>1, <1>2 DEF FileOK, Written
  <1>4. DataOK'
    BY DEF KeyInv, DataOK, Rewriting
  <1>5. \A k \in Nat : Known(k)' => Known(k)
    BY <1>1, <1>2 DEF Known, Rewriting
  <1> QED BY <1>3, <1>4, <1>5 DEF KeyInv, OneKey

LEMMA NothingKey == Nothing.key = 0 /\ Nothing.password = FALSE /\ Nothing.tokens = {}
  BY DEF Nothing

(* What each operation makes of the key that it read.                      *)
LEMMA KeyOf ==
    ASSUME TypeOK, NEW t \in Nat
    PROVE  LET k == IF Read.key = 0 THEN keys + 1 ELSE Read.key
           IN  /\ WithKey(Read, keys + 1).key = k
               /\ SetPassword(Read).key = k
               /\ Mint(Read).key = Read.key /\ Revoke(Read, t).key = Read.key
               /\ WithKey(Read, keys + 1).tokens = Read.tokens
               /\ SetPassword(Read).tokens = Read.tokens
               /\ Mint(Read).tokens = Read.tokens \cup {tokens + 1}
               /\ Revoke(Read, t).tokens = Read.tokens \ {t}
               /\ SetPassword(Read).password
               /\ Mint(Read).password = Read.password
               /\ Revoke(Read, t).password = Read.password
  <1>1. Read \in Content
    BY DEF TypeOK, Read
  <1>2. /\ WithKey(Read, keys + 1).key = IF Read.key = 0 THEN keys + 1 ELSE Read.key
        /\ WithKey(Read, keys + 1).tokens = Read.tokens
        /\ WithKey(Read, keys + 1) \in Content
    BY <1>1, MappingType DEF Content, WithKey
  <1>3. /\ SetPassword(Read).key = WithKey(Read, keys + 1).key
        /\ SetPassword(Read).tokens = WithKey(Read, keys + 1).tokens
        /\ SetPassword(Read).password
    BY <1>2 DEF Content, SetPassword
  <1>4. /\ Mint(Read).key = Read.key /\ Mint(Read).password = Read.password
        /\ Mint(Read).tokens = Read.tokens \cup {tokens + 1}
    BY <1>1 DEF Content, Mint
  <1>5. /\ Revoke(Read, t).key = Read.key /\ Revoke(Read, t).password = Read.password
        /\ Revoke(Read, t).tokens = Read.tokens \ {t}
    BY <1>1 DEF Content, Revoke
  <1> QED BY <1>2, <1>3, <1>4, <1>5

LEMMA KeyStep == TypeInv /\ Asked /\ KeyInv /\ [Next]_vars => KeyInv'
  <1> SUFFICES ASSUME TypeInv, Asked, KeyInv, [Next]_vars PROVE KeyInv'
    OBVIOUS
  <1>a. /\ TypeOK /\ FileOK /\ DataOK /\ Written
        /\ pc \in [Requests -> Place] /\ data \in [Requests -> Content]
        /\ issued \subseteq Nat /\ tokens \in Nat
    BY DEF TypeInv, TypeOK, KeyInv
  <1>b. /\ Read \in Content
        /\ WithKey(Read, keys + 1) \in Content /\ SetPassword(Read) \in Content
        /\ Mint(Read) \in Content /\ \A t \in Nat : Revoke(Read, t) \in Content
    BY <1>a, MappingType DEF TypeOK, Read
  <1>c. Read.key # 0 \/ Read.password => file.shape = "whole"
    BY <1>a, NothingKey DEF FileOK, Read
  <1>1. ASSUME NEW r \in Requests, Handle(r) PROVE KeyInv'
    <2>1. CASE \/ Arrive(r) \/ Unreadable(r) \/ GatePassword(r) \/ GateCalibration(r)
               \/ Redirected(r) \/ CheckPassword(r) \/ Login(r) \/ Page(r)
               \/ (Session(r) /\ Read.key # 0)
               \/ MeasureScale(r) \/ SaveCalibration(r) \/ GiveUpSave(r) \/ EndSave(r)
      <3>1. UNCHANGED <<file, data, issued, founded>>
        <4>1. CASE Session(r) /\ Read.key # 0
          BY <4>1 DEF Session, Answer, auth, past
        <4> QED BY <2>1, <4>1
              DEF Arrive, Unreadable, GatePassword, GateCalibration, Redirected,
                  CheckPassword, Login, Page, MeasureScale, SaveCalibration,
                  GiveUpSave, EndSave, Proceed, Answer, auth, past
      <3>2. \A q \in Requests \ {r} : pc'[q] = pc[q]
        <4>1. CASE Session(r) /\ Read.key # 0
          BY <4>1, <1>a DEF Session, Answer, Forget, Goto
        <4> QED BY <2>1, <4>1, <1>a
              DEF Arrive, Unreadable, GatePassword, GateCalibration, Redirected,
                  CheckPassword, Login, Page, MeasureScale, SaveCalibration,
                  GiveUpSave, EndSave, Proceed, Answer, Forget, Goto
      <3>3. ~Rewriting(r)' /\ (Past(r)' => file.shape # "absent")
        <4>1. CASE Arrive(r)
          BY <4>1, <1>a, PlaceNames DEF Arrive, Goto, Rewriting, Past
        <4>2. CASE Login(r)
          BY <4>2, <1>a, <1>c DEF Login, Proceed, Answer, Forget, Goto, Rewriting, Past
        <4>3. CASE Session(r) /\ Read.key # 0
          <5>1. Answer(r) \/ (Goto(r, want[r]) /\ want[r] \in Behind)
            BY <4>3 DEF Session, TypeInv, Route
          <5> QED BY <5>1, <4>3, <1>a, <1>c, PlaceNames
                DEF Answer, Forget, Goto, Rewriting, Past, Behind, Direction
        <4> QED BY <2>1, <4>1, <4>2, <4>3, <1>a
              DEF Unreadable, GatePassword, GateCalibration, Redirected,
                  CheckPassword, Page, MeasureScale, SaveCalibration,
                  GiveUpSave, EndSave, Proceed, Answer, Forget, Goto, Rewriting, Past
      <3> QED BY <3>1, <3>2, <3>3, KeyFrame DEF Rewriting, Past
    <2>2. CASE Session(r) /\ Read.key = 0
      <3>1. CASE Begin(r, WithKey(Read, keys + 1), "truncateKey")
        BY <3>1, <1>a, <1>b, KeyOf, BeginKey
      <3>2. CASE Answer(r)
        BY <3>2, <1>a, KeyFrame DEF Answer, Forget, Goto, auth, past, Rewriting, Past
      <3> QED BY <2>2, <3>1, <3>2 DEF Session, Asked
    <2>3. CASE SetupPassword(r)
      BY <2>3, <1>a, <1>b, KeyOf, BeginKey DEF SetupPassword
    <2>4. CASE MintToken(r) \/ RevokeToken(r)
      <3>1. Read.key # 0
        <4>1. Past(r) /\ Readable
          BY <2>4 DEF MintToken, RevokeToken, Begin, Past
        <4> QED BY <4>1, <1>a DEF FileOK, Written, Readable, Read
      <3>2. CASE MintToken(r)
        BY <3>1, <3>2, <1>a, <1>b, KeyOf, BeginKey DEF MintToken
      <3>3. CASE RevokeToken(r)
        <4>1. PICK t \in 1..tokens : Begin(r, Revoke(Read, t), "truncate")
          BY <3>3 DEF RevokeToken
        <4>2. t \in Nat /\ Revoke(Read, t).key = Read.key /\ Revoke(Read, t) \in Content
          BY <4>1, <1>a, <1>b, KeyOf
        <4> QED BY <3>1, <4>1, <4>2, BeginKey
      <3> QED BY <2>4, <3>2, <3>3
    <2>5. CASE StartWrite(r) \/ StartWriteKey(r)
      BY <2>5, <1>a, WriteKeyLemma
         DEF StartWrite, StartWriteKey, TruncateFile, Goto, past
    <2>6. CASE EndWrite(r) \/ EndWriteKey(r)
      BY <2>6, <1>a, WriteKeyLemma DEF EndWrite, EndWriteKey, Forget, Goto, past
    <2>7. CASE IssueSession(r)
      <3>1. /\ pc[r] = "issue" /\ file.shape = "whole"
            /\ issued' = issued \cup {file.holds.key}
            /\ pc' = [pc EXCEPT ![r] = "idle"] /\ UNCHANGED <<file, data, founded>>
        BY <2>7, <1>a DEF IssueSession, Written, Past, Readable, Read, Forget, Goto, auth
      <3>2. FileOK' /\ DataOK' /\ Written'
        BY <3>1, <1>a DEF FileOK, DataOK, Written, Past, Rewriting
      <3>3. \A k \in Nat : Known(k)' => Known(k)
        BY <3>1, <1>a DEF Known, Rewriting
      <3> QED BY <3>1, <3>2, <3>3 DEF KeyInv, OneKey
    <2> QED BY <1>1, <2>1, <2>2, <2>3, <2>4, <2>5, <2>6, <2>7 DEF Handle
  <1>2. CASE Crash
    BY <1>2, KeyFrame DEF Crash, past, Rewriting, Past
  <1>3. CASE CommandLine
    BY <1>3, KeyFrame DEF CommandLine, auth, requests, past, Rewriting, Past
  <1>4. CASE UNCHANGED vars
    BY <1>4, KeyFrame DEF vars, Rewriting, Past
  <1> QED BY <1>1, <1>2, <1>3, <1>4 DEF Next

LEMMA KeyInit == Init => Asked /\ KeyInv
  BY NothingKey DEF Init, AuthInit, Asked, KeyInv, FileOK, DataOK, Written, OneKey, Known,
     Rewriting, Past

LEMMA KeyInvariant == Spec => [](TypeInv /\ Asked /\ KeyInv)
  BY TypeInvariant, KeyInit, AskedStep, KeyStep, PTL DEF Spec

(* A session stays valid: unless two requests found no key at the same     *)
(* time, auth.json cannot be read or has the key that every cookie was     *)
(* signed with (auth.py: set_password, secret_key, _write).                *)
THEOREM KeyStableHolds == Spec => []KeyStable
  <1>1. TypeInv /\ KeyInv => KeyStable
    BY DEF TypeInv, TypeOK, KeyInv, OneKey, Known, KeyStable, Content
  <1> QED BY <1>1, KeyInvariant, PTL

---------------------------------------------------------------------------
(* Stream tokens.  As long as no rewrite begins during another, there is   *)
(* one at a time, which is about to leave the tokens that are granted when *)
(* it ends.                                                                *)
After(r) ==
    IF pc[r] \in {"truncateKey", "writeKey"} \/ want[r] = "setup" THEN granted
    ELSE IF want[r] = "mint" THEN granted \cup {token[r]} ELSE granted \ {token[r]}
TokenInv == ~crossed =>
    /\ \A q, r \in Requests : Rewriting(q) /\ Rewriting(r) => q = r
    /\ Readable => file.holds.tokens = granted
    /\ \A r \in Requests : Rewriting(r) => data[r].tokens = After(r)

LEMMA TokenFrame ==
    ASSUME TokenInv, UNCHANGED <<file, granted, crossed>>,
           \A r \in Requests : Rewriting(r)' =>
               /\ Rewriting(r) /\ After(r)' = After(r) /\ data'[r] = data[r]
    PROVE  TokenInv'
  BY DEF TokenInv, Readable

LEMMA BeginToken ==
    ASSUME TypeInv, TokenInv, NEW r \in Requests, NEW d \in Content,
           NEW place \in {"truncate", "truncateKey"}, Begin(r, d, place),
           file.holds.tokens = granted => d.tokens = After(r)',
           \A q \in Requests \ {r} : token'[q] = token[q]
    PROVE  TokenInv'
  <1>1. /\ data' = [data EXCEPT ![r] = d] /\ pc' = [pc EXCEPT ![r] = place]
        /\ crossed' = (crossed \/ {q \in Requests \ {r} : Rewriting(q)} # {})
        /\ Readable /\ UNCHANGED <<file, want, granted>>
        /\ data \in [Requests -> Content] /\ pc \in [Requests -> Place]
    BY DEF Begin, Goto, TypeInv, TypeOK
  <1> SUFFICES ASSUME ~crossed'
               PROVE  /\ \A q, s \in Requests : Rewriting(q)' /\ Rewriting(s)' => q = s
                      /\ Readable' => file'.holds.tokens = granted'
                      /\ \A q \in Requests : Rewriting(q)' => data'[q].tokens = After(q)'
    BY DEF TokenInv
  <1>2. ~crossed /\ \A q \in Requests \ {r} : ~Rewriting(q)
    BY <1>1
  <1>3. \A q \in Requests : Rewriting(q)' => q = r
    BY <1>1, <1>2 DEF Rewriting
  <1>4. file'.holds.tokens = granted' /\ data'[r].tokens = After(r)'
    BY <1>1, <1>2 DEF TokenInv
  <1> QED BY <1>3, <1>4

LEMMA TokenStep == TypeInv /\ Asked /\ KeyInv /\ TokenInv /\ [Next]_vars => TokenInv'
  <1> SUFFICES ASSUME TypeInv, Asked, KeyInv, TokenInv, [Next]_vars PROVE TokenInv'
    OBVIOUS
  <1>a. /\ TypeOK
        /\ pc \in [Requests -> Place] /\ data \in [Requests -> Content]
        /\ want \in [Requests -> Ask] /\ token \in [Requests -> Nat]
        /\ tokens \in Nat
    BY DEF TypeInv, TypeOK
  <1>b. /\ Read \in Content
        /\ WithKey(Read, keys + 1) \in Content /\ SetPassword(Read) \in Content
        /\ Mint(Read) \in Content /\ \A t \in Nat : Revoke(Read, t) \in Content
    BY <1>a, MappingType DEF TypeOK, Read
  <1>1. ASSUME NEW r \in Requests, Handle(r) PROVE TokenInv'
    <2>1. CASE \/ Arrive(r) \/ Unreadable(r) \/ GatePassword(r) \/ GateCalibration(r)
               \/ Redirected(r) \/ CheckPassword(r) \/ Login(r) \/ Page(r)
               \/ IssueSession(r)
               \/ MeasureScale(r) \/ SaveCalibration(r) \/ GiveUpSave(r) \/ EndSave(r)
      <3>1. UNCHANGED <<file, data, granted, crossed>>
        BY <2>1
           DEF Arrive, Unreadable, GatePassword, GateCalibration, Redirected,
               CheckPassword, Login, Page, IssueSession, MeasureScale, SaveCalibration,
               GiveUpSave, EndSave, Proceed, Answer, auth, past
      <3>2. \A q \in Requests \ {r} : UNCHANGED <<pc[q], want[q], token[q]>>
        BY <2>1, <1>a
           DEF Arrive, Unreadable, GatePassword, GateCalibration, Redirected,
               CheckPassword, Login, Page, IssueSession, MeasureScale, SaveCalibration,
               GiveUpSave, EndSave, Proceed, Answer, Forget, Goto
      <3>3. ~Rewriting(r)'
        <4>1. CASE Arrive(r)
          BY <4>1, <1>a, PlaceNames DEF Arrive, Goto, Rewriting
        <4> QED BY <2>1, <4>1, <1>a
              DEF Unreadable, GatePassword, GateCalibration, Redirected,
                  CheckPassword, Login, Page, IssueSession, MeasureScale,
                  SaveCalibration, GiveUpSave, EndSave, Proceed, Answer, Forget, Goto,
                  Rewriting
      <3> QED BY <3>1, <3>2, <3>3, TokenFrame DEF Rewriting, After
    <2>2. CASE Session(r)
      <3>1. CASE Answer(r) \/ (Goto(r, want[r]) /\ want[r] \in Behind
                               /\ UNCHANGED <<auth, want, token, past>>)
        <4>1. ~Rewriting(r)' /\ UNCHANGED <<file, data, granted, crossed>>
          BY <3>1, <1>a
             DEF Answer, Forget, Goto, Behind, Direction, Rewriting, auth, past
        <4>2. \A q \in Requests \ {r} : UNCHANGED <<pc[q], want[q], token[q]>>
          BY <3>1, <1>a DEF Answer, Forget, Goto
        <4> QED BY <4>1, <4>2, TokenFrame DEF Rewriting, After
      <3>2. CASE Begin(r, WithKey(Read, keys + 1), "truncateKey") /\ UNCHANGED token
        <4>1. pc'[r] = "truncateKey" /\ UNCHANGED granted
          BY <3>2, <1>a DEF Begin, Goto
        <4>2. file.holds.tokens = granted => WithKey(Read, keys + 1).tokens = After(r)'
          BY <4>1, <1>a, KeyOf DEF After, Read
        <4> QED BY <3>2, <4>2, <1>b, BeginToken
      <3> QED BY <2>2, <3>1, <3>2 DEF Session, TypeInv, Route
    <2>3. CASE SetupPassword(r)
      <3>1. want'[r] = "setup" /\ UNCHANGED granted
        BY <2>3 DEF SetupPassword, Begin, Asked
      <3>2. file.holds.tokens = granted => SetPassword(Read).tokens = After(r)'
        BY <3>1, <1>a, KeyOf DEF After, Read
      <3> QED BY <2>3, <3>2, <1>b, BeginToken DEF SetupPassword
    <2>4. CASE MintToken(r)
      <3>1. /\ want'[r] = "mint" /\ pc'[r] = "truncate" /\ UNCHANGED granted
            /\ token'[r] = tokens + 1
        BY <2>4, <1>a DEF MintToken, Begin, Asked, Goto
      <3>2. file.holds.tokens = granted => Mint(Read).tokens = After(r)'
        BY <3>1, <1>a, KeyOf DEF After, Read
      <3> QED BY <2>4, <3>2, <1>a, <1>b, BeginToken DEF MintToken
    <2>5. CASE RevokeToken(r)
      <3>1. PICK t \in 1..tokens :
              token' = [token EXCEPT ![r] = t] /\ Begin(r, Revoke(Read, t), "truncate")
        BY <2>5 DEF RevokeToken
      <3>2. /\ want'[r] = "revoke" /\ pc'[r] = "truncate" /\ UNCHANGED granted
            /\ token'[r] = t /\ t \in Nat
        BY <2>5, <3>1, <1>a DEF RevokeToken, Begin, Asked, Goto
      <3>3. file.holds.tokens = granted => Revoke(Read, t).tokens = After(r)'
        BY <3>2, <1>a, KeyOf DEF After, Read
      <3> QED BY <3>1, <3>2, <3>3, <1>a, <1>b, BeginToken
    <2>6. CASE StartWrite(r) \/ StartWriteKey(r)
      <3>1. /\ UNCHANGED <<data, want, token, granted, crossed>> /\ ~Readable'
            /\ \A q \in Requests \ {r} : pc'[q] = pc[q]
            /\ \/ pc[r] = "truncate" /\ pc'[r] = "write"
               \/ pc[r] = "truncateKey" /\ pc'[r] = "writeKey"
        BY <2>6, <1>a
           DEF StartWrite, StartWriteKey, TruncateFile, Truncate, Goto, past, Readable
      <3>2. \A q \in Requests : Rewriting(q)' => Rewriting(q) /\ After(q)' = After(q)
        BY <3>1 DEF Rewriting, After
      <3> QED BY <3>1, <3>2 DEF TokenInv
    <2>7. CASE EndWrite(r) \/ EndWriteKey(r)
      <3>1. /\ Rewriting(r) /\ ~Rewriting(r)' /\ granted' = After(r)
            /\ \A q \in Requests \ {r} : pc'[q] = pc[q]
            /\ UNCHANGED crossed
        <4>1. CASE EndWrite(r)
          BY <4>1, <1>a DEF EndWrite, Forget, Goto, Rewriting, After, Asked
        <4>2. CASE EndWriteKey(r)
          BY <4>2, <1>a DEF EndWriteKey, Forget, Goto, past, Rewriting, After
        <4> QED BY <2>7, <4>1, <4>2
      <3>2. Readable' => file'.holds = data[r]
        BY <2>7 DEF EndWrite, EndWriteKey, Write, Whole, Mixed, Readable
      <3>3. ~crossed => \A q \in Requests : ~Rewriting(q)'
        BY <3>1 DEF TokenInv, Rewriting
      <3> QED BY <3>1, <3>2, <3>3 DEF TokenInv
    <2> QED BY <1>1, <2>1, <2>2, <2>3, <2>4, <2>5, <2>6, <2>7 DEF Handle
  <1>2. CASE Crash
    BY <1>2, TokenFrame DEF Crash, past, Rewriting
  <1>3. CASE CommandLine
    BY <1>3, TokenFrame DEF CommandLine, auth, requests, past, Rewriting, After
  <1>4. CASE UNCHANGED vars
    BY <1>4, TokenFrame DEF vars, Rewriting, After
  <1> QED BY <1>1, <1>2, <1>3, <1>4 DEF Next

(* The stream tokens of auth.json are those that were minted and not       *)
(* revoked, as long as no rewrite began during another (auth.py:           *)
(* mint_stream_token, revoke_stream_token).                                *)
THEOREM TokensKeptHolds == Spec => []TokensKept
  <1>1. Init => TokenInv
    BY NothingKey DEF Init, AuthInit, TokenInv, Rewriting
  <1>2. TokenInv => TokensKept
    BY DEF TokenInv, TokensKept, Readable
  <1> QED BY <1>1, <1>2, TokenStep, KeyInvariant, PTL DEF Spec

---------------------------------------------------------------------------
(* The gate.                                                               *)

(* A request that draws a key for a foreign cookie does so alone.          *)
DrawsKey(r) == pc[r] \in {"truncateKey", "writeKey"}
DrawsAlone == ~founded =>
    \A r \in Requests : DrawsKey(r) =>
        /\ pc[r] = "truncateKey" => file.shape = "absent"
        /\ pc[r] = "writeKey" => file.shape = "empty"
        /\ \A q \in Requests \ {r} : ~Rewriting(q)
(* The wizard writes a password; tokens change once somebody has a cookie. *)
Sets(r) == pc[r] \in {"truncate", "write"} /\ want[r] = "setup"
Changes(r) ==
    \/ pc[r] \in {"mint", "revoke"}
    \/ pc[r] \in {"truncate", "write"} /\ want[r] \in {"mint", "revoke"}
SetsPassword == \A r \in Requests : Sets(r) => data[r].password
ChangesLater == (\E r \in Requests : Changes(r)) => issued # {}
(* Since there are cookies there is a password, in the file and in what is *)
(* being written.                                                          *)
Live == issued # {} \/ \E r \in Requests : pc[r] = "issue"
HasPassword == ~founded /\ Live =>
    /\ file.shape = "whole" => file.holds.password
    /\ \A r \in Requests : Rewriting(r) => data[r].password
WasSetUp ==
    \A r \in Requests :
        /\ was[r] => issued # {} /\ IsCalibrated
        /\ ~founded /\ pc[r] = "redirected" => ~was[r]
(* No key is that of an earlier installation.                              *)
KeysDrawn == keys <= MaxKeys /\ \A k \in Nat : Known(k) => k <= keys

GateInv ==
    DrawsAlone /\ SetsPassword /\ ChangesLater /\ HasPassword /\ WasSetUp /\ KeysDrawn

GateTypes ==
    /\ pc \in [Requests -> Place] /\ data \in [Requests -> Content]
    /\ want \in [Requests -> Ask] /\ was \in [Requests -> BOOLEAN]
    /\ keys \in Nat /\ issued \subseteq Nat
    /\ file \in [shape : Shape, holds : Content]

(* A step that leaves auth.json alone.                                     *)
LEMMA GateFrame ==
    ASSUME FileOK, Asked, GateInv, UNCHANGED <<file, keys, issued, founded>>,
           \A r \in Requests : Rewriting(r)' =>
               Rewriting(r) /\ pc'[r] = pc[r] /\ want'[r] = want[r] /\ data'[r] = data[r],
           \A r \in Requests : Changes(r)' => Changes(r) \/ issued # {},
           \A r \in Requests : pc'[r] = "issue" => Live \/ file.holds.password,
           \A r \in Requests : was'[r] =>
               IsCalibrated' /\ (was[r] \/ issued # {}),
           \A r \in Requests : ~founded /\ pc'[r] = "redirected" /\ was'[r] =>
               pc[r] = "redirected" /\ was[r]
    PROVE  GateInv'
  <1>1. DrawsAlone' /\ SetsPassword' /\ ChangesLater' /\ WasSetUp'
    BY DEF GateInv, DrawsAlone, DrawsKey, SetsPassword, Sets, ChangesLater,
           WasSetUp, Rewriting
  <1>2. KeysDrawn'
    BY DEF GateInv, KeysDrawn, Known
  <1>3. HasPassword'
    <2> SUFFICES ASSUME ~founded, Live'
                 PROVE  /\ file.shape = "whole" => file.holds.password
                        /\ \A r \in Requests : Rewriting(r)' => data'[r].password
      BY DEF HasPassword
    <2>1. CASE Live
      BY <2>1 DEF GateInv, HasPassword
    <2>2. CASE ~Live
      <3>1. file.holds.password /\ issued = {}
        BY <2>2 DEF Live
      <3>2. file.shape = "whole"
        BY <3>1, NothingKey DEF FileOK
      <3>3. \A r \in Requests : Rewriting(r) => Sets(r) \/ Changes(r) \/ DrawsKey(r)
        BY DEF Rewriting, Sets, Changes, DrawsKey, Asked
      <3>4. \A r \in Requests : ~Changes(r) /\ ~DrawsKey(r)
        BY <3>1, <3>2 DEF GateInv, ChangesLater, DrawsAlone, DrawsKey
      <3> QED BY <3>1, <3>3, <3>4 DEF GateInv, SetsPassword
    <2> QED BY <2>1, <2>2
  <1> QED BY <1>1, <1>2, <1>3 DEF GateInv

LEMMA BeginGate ==
    ASSUME TypeInv, KeyInv, GateInv, NEW r \in Requests, NEW d \in Content,
           NEW place \in {"truncate", "truncateKey"}, Begin(r, d, place),
           d.key = IF Read.key = 0 THEN keys + 1 ELSE Read.key,
           place = "truncateKey" => Read.key = 0,
           place = "truncate" =>
               \/ want[r] = "setup" /\ d.password
               \/ want[r] # "setup" /\ Changes(r) /\ d.password = Read.password
                  /\ pc[r] \in {"mint", "revoke"}
    PROVE  GateInv'
  <1>a. /\ GateTypes /\ FileOK /\ Written
        /\ DrawsAlone /\ SetsPassword /\ ChangesLater /\ HasPassword /\ WasSetUp
        /\ KeysDrawn
    BY DEF TypeInv, TypeOK, KeyInv, GateTypes, GateInv
  <1>1. /\ Readable /\ data' = [data EXCEPT ![r] = d]
        /\ pc' = [pc EXCEPT ![r] = place]
        /\ UNCHANGED <<file, issued, want, was, calibration>>
        /\ founded' = (founded \/ (Read.key = 0 /\
                          {q \in Requests \ {r} : Rewriting(q)} # {}))
        /\ Read.key = 0 => keys < MaxKeys
        /\ keys' = IF Read.key = 0 THEN keys + 1 ELSE keys
    BY DEF Begin, Goto
  <1>2. Read.key = 0 => file.shape = "absent" /\ ~Live
    BY <1>1, <1>a DEF FileOK, Written, Readable, Read, Live, Past
  <1>3. file.shape = "absent" => Read.key = 0
    BY <1>a, NothingKey DEF FileOK, Read
  <1>4. DrawsAlone'
    <2> SUFFICES ASSUME ~founded', NEW q \in Requests, DrawsKey(q)'
                 PROVE  /\ pc'[q] = "truncateKey" => file.shape = "absent"
                        /\ pc'[q] = "writeKey" => file.shape = "empty"
                        /\ \A s \in Requests \ {q} : ~Rewriting(s)'
      BY <1>1 DEF DrawsAlone
    <2>1. ~founded /\ (Read.key = 0 => \A s \in Requests \ {r} : ~Rewriting(s))
      BY <1>1
    <2>2. CASE q = r
      <3>1. pc'[r] = "truncateKey" /\ Read.key = 0
        BY <2>2, <1>1, <1>a DEF DrawsKey, GateTypes
      <3> QED BY <2>1, <2>2, <3>1, <1>1, <1>2, <1>a DEF Rewriting, GateTypes
    <2>3. CASE q # r
      <3>1. DrawsKey(q) /\ Rewriting(q)
        BY <2>3, <1>1, <1>a DEF DrawsKey, Rewriting, GateTypes
      <3>2. file.shape \in {"absent", "empty"}
        BY <2>1, <3>1, <1>a DEF DrawsAlone, DrawsKey
      <3> QED BY <2>1, <2>3, <3>1, <3>2, <1>1, <1>3 DEF Readable
    <2> QED BY <2>2, <2>3
  <1>5. SetsPassword' /\ ChangesLater'
    BY <1>1, <1>a DEF SetsPassword, Sets, ChangesLater, Changes, GateTypes
  <1>6. HasPassword'
    <2> SUFFICES ASSUME ~founded', Live'
                 PROVE  /\ file.shape = "whole" => file.holds.password
                        /\ \A q \in Requests : Rewriting(q)' => data'[q].password
      BY <1>1 DEF HasPassword
    <2>1. ~founded /\ Live
      BY <1>1, <1>a DEF Live, GateTypes
    <2>2. Read.key # 0 /\ place = "truncate" /\ file.shape = "whole"
      BY <2>1, <1>1, <1>2, <1>a, NothingKey DEF FileOK, Read
    <2>3. d.password
      BY <2>1, <2>2, <1>a DEF HasPassword, Read
    <2> QED BY <2>1, <2>3, <1>1, <1>a DEF HasPassword, Rewriting, GateTypes
  <1>7. WasSetUp'
    BY <1>1, <1>a DEF WasSetUp, IsCalibrated, calibration, GateTypes
  <1>8. KeysDrawn'
    <2>1. keys' <= MaxKeys /\ keys' >= keys /\ keys' \in Nat
      BY <1>1, <1>a, BoundsAssumption DEF KeysDrawn, GateTypes
    <2>2. \A k \in Nat : Known(k)' => Known(k) \/ k = d.key
      BY <1>1, <1>a DEF Known, Rewriting, GateTypes
    <2>3. d.key <= keys'
      <3>1. CASE Read.key = 0
        BY <3>1, <1>1, <1>a DEF GateTypes
      <3>2. CASE Read.key # 0
        <4>1. Known(Read.key) /\ Read.key \in Nat
          BY <3>2, <1>a, NothingKey DEF FileOK, Known, Read, GateTypes, Content
        <4> QED BY <3>2, <4>1, <1>1, <1>a DEF KeysDrawn
      <3> QED BY <3>1, <3>2
    <2> QED BY <2>1, <2>2, <2>3, <1>a DEF KeysDrawn, GateTypes
  <1> QED BY <1>4, <1>5, <1>6, <1>7, <1>8 DEF GateInv

LEMMA WriteGate ==
    ASSUME TypeInv, Asked, KeyInv, GateInv, NEW r \in Requests,
           \/ /\ Truncate(r) /\ data' = data /\ want' = want
              /\ \/ pc[r] = "truncate" /\ pc'[r] = "write"
                 \/ pc[r] = "truncateKey" /\ pc'[r] = "writeKey"
           \/ /\ Write(r) /\ pc[r] \in {"write", "writeKey"}
              /\ pc'[r] = "idle" \/ (pc'[r] = "issue" /\ Sets(r)),
           UNCHANGED <<keys, issued, founded, calibration>>,
           was'[r] => was[r],
           \A q \in Requests \ {r} :
               UNCHANGED <<pc[q], want[q], was[q], data[q]>>
    PROVE  GateInv'
  <1>a. /\ GateTypes /\ FileOK /\ DataOK
        /\ DrawsAlone /\ SetsPassword /\ ChangesLater /\ HasPassword /\ WasSetUp
        /\ KeysDrawn
    BY DEF TypeInv, TypeOK, KeyInv, GateTypes, GateInv
  <1>1. Rewriting(r)
    BY DEF Rewriting
  <1>2. \/ file' = [shape |-> "empty", holds |-> Nothing] /\ pc'[r] \in {"write", "writeKey"}
        \/ file'.shape # "whole" /\ pc'[r] \in {"idle", "issue"}
        \/ file' = [shape |-> "whole", holds |-> data[r]] /\ pc'[r] \in {"idle", "issue"}
    BY DEF Truncate, Write, Whole, Mixed
  <1>3. DrawsAlone'
    <2> SUFFICES ASSUME ~founded, NEW q \in Requests, DrawsKey(q)'
                 PROVE  /\ pc'[q] = "truncateKey" => file'.shape = "absent"
                        /\ pc'[q] = "writeKey" => file'.shape = "empty"
                        /\ \A s \in Requests \ {q} : ~Rewriting(s)'
      BY DEF DrawsAlone
    <2>1. CASE q = r
      <3>1. pc'[r] = "writeKey" /\ DrawsKey(r) /\ file'.shape = "empty"
        BY <2>1, <1>2 DEF DrawsKey
      <3> QED BY <2>1, <3>1, <1>a DEF DrawsAlone, Rewriting
    <2>2. CASE q # r
      BY <2>2, <1>1, <1>a DEF DrawsAlone, DrawsKey
    <2> QED BY <2>1, <2>2
  <1>4. SetsPassword' /\ ChangesLater'
    BY <1>a DEF SetsPassword, Sets, ChangesLater, Changes
  <1>5. HasPassword'
    <2> SUFFICES ASSUME ~founded, Live'
                 PROVE  /\ file'.shape = "whole" => file'.holds.password
                        /\ \A q \in Requests : Rewriting(q)' => data'[q].password
      BY DEF HasPassword
    <2>1. \A q \in Requests : Rewriting(q)' => Rewriting(q) /\ data'[q] = data[q]
      BY DEF Rewriting
    <2>2. CASE Live
      BY <2>1, <2>2, <1>1, <1>2, <1>a DEF HasPassword
    <2>3. CASE ~Live
      <3>1. pc'[r] = "issue" /\ Sets(r) /\ issued = {}
        BY <2>3 DEF Live
      <3>2. \A q \in Requests : Rewriting(q) => Sets(q)
        <4>1. \A q \in Requests : Rewriting(q) => Sets(q) \/ Changes(q) \/ DrawsKey(q)
          BY DEF Rewriting, Sets, Changes, DrawsKey, Asked
        <4>2. \A q \in Requests : ~Changes(q)
          BY <3>1, <1>a DEF ChangesLater
        <4>3. \A q \in Requests : ~DrawsKey(q)
          BY <3>1, <1>1, <1>a DEF DrawsAlone, DrawsKey, Sets
        <4> QED BY <4>1, <4>2, <4>3
      <3> QED BY <2>1, <3>1, <3>2, <1>2, <1>a DEF SetsPassword
    <2> QED BY <2>2, <2>3
  <1>6. WasSetUp'
    BY <1>a DEF WasSetUp, IsCalibrated, calibration
  <1>7. KeysDrawn'
    <2>1. \A k \in Nat : Known(k)' => Known(k)
      BY <1>1, <1>2 DEF Known, Rewriting
    <2> QED BY <2>1, <1>a DEF KeysDrawn
  <1> QED BY <1>3, <1>4, <1>5, <1>6, <1>7 DEF GateInv

LEMMA GateStep == TypeInv /\ Asked /\ KeyInv /\ GateInv /\ [Next]_vars => GateInv'
  <1> SUFFICES ASSUME TypeInv, Asked, KeyInv, GateInv, [Next]_vars PROVE GateInv'
    OBVIOUS
  <1>a. /\ TypeOK /\ FileOK /\ Written /\ GateTypes
        /\ DrawsAlone /\ SetsPassword /\ ChangesLater /\ HasPassword /\ WasSetUp
        /\ KeysDrawn
    BY DEF TypeInv, TypeOK, KeyInv, GateTypes, GateInv
  <1>b. /\ Read \in Content
        /\ WithKey(Read, keys + 1) \in Content /\ SetPassword(Read) \in Content
        /\ Mint(Read) \in Content /\ \A t \in Nat : Revoke(Read, t) \in Content
    BY <1>a, MappingType DEF TypeOK, Read
  <1>c. /\ FileOK /\ pc \in [Requests -> Place] /\ want \in [Requests -> Ask]
        /\ was \in [Requests -> BOOLEAN]
    BY <1>a DEF GateTypes
  <1>1. ASSUME NEW r \in Requests,
               UNCHANGED <<file, data, keys, issued, founded>>,
               \A q \in Requests \ {r} : UNCHANGED <<pc[q], want[q], was[q]>>,
               ~Rewriting(r)',
               pc'[r] \in {"mint", "revoke"} => issued # {},
               pc'[r] = "issue" => file.holds.password,
               IsCalibrated => IsCalibrated',
               was'[r] => was[r] \/ SetUp,
               ~founded /\ pc'[r] = "redirected" => ~was'[r]
        PROVE  GateInv'
    <2>1. ~Sets(r)' /\ (Changes(r)' => issued # {})
      BY <1>1 DEF Sets, Changes, Rewriting
    <2>2. \A q \in Requests : was'[q] => IsCalibrated' /\ (was[q] \/ issued # {})
      BY <1>1, <1>a DEF WasSetUp, SetUp
    <2>3. \A q \in Requests : Rewriting(q)' =>
             Rewriting(q) /\ pc'[q] = pc[q] /\ want'[q] = want[q] /\ data'[q] = data[q]
      BY <1>1 DEF Rewriting
    <2>4. \A q \in Requests : Changes(q)' => Changes(q) \/ issued # {}
      BY <1>1, <2>1 DEF Changes
    <2>5. \A q \in Requests : pc'[q] = "issue" => Live \/ file.holds.password
      BY <1>1 DEF Live
    <2> QED BY <1>1, <1>a, <2>2, <2>3, <2>4, <2>5, GateFrame
  <1>2. ASSUME NEW r \in Requests, Handle(r) PROVE GateInv'
    <2>1. CASE \/ Unreadable(r) \/ Redirected(r) \/ CheckPassword(r) \/ Page(r)
               \/ Login(r) \/ GateCalibration(r) \/ GatePassword(r)
      <3>1. /\ UNCHANGED <<file, data, keys, issued, founded, calibration>>
            /\ \A q \in Requests \ {r} : UNCHANGED <<pc[q], want[q], was[q]>>
            /\ was'[r] => was[r]
        BY <2>1, <1>c
           DEF Unreadable, Redirected, CheckPassword, Page, Login, GateCalibration,
               GatePassword, Proceed, Answer, Forget, Goto, auth, past
      <3>2. pc'[r] \in {"idle", "set", "issue", "gateCalibration", "session", "redirected"}
        BY <2>1, <1>c
           DEF Unreadable, Redirected, CheckPassword, Page, Login, GateCalibration,
               GatePassword, Proceed, Answer, Forget, Goto
      <3>3. pc'[r] = "issue" => file.holds.password
        BY <2>1, <1>c
           DEF Unreadable, Redirected, CheckPassword, Page, Login, GateCalibration,
               GatePassword, Proceed, Answer, Forget, Goto, Read
      <3>4. ~founded /\ pc'[r] = "redirected" => ~was'[r]
        <4> SUFFICES ASSUME ~founded, pc'[r] = "redirected", was[r] PROVE FALSE
          BY <3>1
        <4>1. Live /\ IsCalibrated
          BY <1>a DEF WasSetUp, Live
        <4>2. ~GateCalibration(r)
          BY <4>1, <1>c DEF GateCalibration, Proceed, Goto
        <4>3. CASE GatePassword(r)
          <5>1. Readable /\ ~Read.password
            BY <4>3, <1>c DEF GatePassword, Proceed, Goto
          <5>2. file.shape = "whole"
            BY <5>1, <1>a DEF Readable, Written, WasSetUp
          <5> QED BY <4>1, <5>1, <5>2, <1>a DEF HasPassword, Read
        <4> QED BY <2>1, <4>2, <4>3, <1>c
              DEF Unreadable, Redirected, CheckPassword, Page, Login, Proceed, Answer,
                  Forget, Goto
      <3>5. ~Rewriting(r)' /\ (IsCalibrated => IsCalibrated')
        BY <3>1, <3>2 DEF Rewriting, IsCalibrated, calibration
      <3> QED BY <3>1, <3>2, <3>3, <3>4, <3>5, <1>1
    <2>2. CASE Arrive(r)
      <3>1. PICK ask \in Ask :
              /\ pc' = [pc EXCEPT ![r] = Entry(ask)]
              /\ want' = [want EXCEPT ![r] = ask]
              /\ was' = [was EXCEPT ![r] = SetUp]
              /\ UNCHANGED <<file, data, keys, issued, founded, calibration>>
        BY <2>2 DEF Arrive, Goto, auth, past
      <3>2. pc'[r] \in {"check", "verify", "gate", "session"}
        BY <3>1, <1>c, PlaceNames
      <3>3. ~Rewriting(r)' /\ (IsCalibrated => IsCalibrated')
        BY <3>1, <3>2 DEF Rewriting, IsCalibrated, calibration
      <3>4. was'[r] => SetUp
        BY <3>1, <1>c
      <3>5. \A q \in Requests \ {r} : UNCHANGED <<pc[q], want[q], was[q]>>
        BY <3>1, <1>c
      <3> QED BY <3>1, <3>2, <3>3, <3>4, <3>5, <1>1
    <2>3. CASE Session(r)
      <3>1. CASE Answer(r)
        BY <3>1, <1>c, <1>1
           DEF Answer, Forget, Goto, auth, past, Rewriting, IsCalibrated, calibration
      <3>2. CASE /\ Readable /\ Read.key = cookie[r]
                 /\ Goto(r, want[r]) /\ pc[r] = "session"
                 /\ UNCHANGED <<auth, calibration, want, token, was, past>>
        <4>1. issued # {}
          <5>1. cookie[r] \in (issued \cup {Foreign}) \ {0}
            BY <3>2 DEF Asked
          <5>2. Read.key # 0 /\ Read.key \in Nat
            BY <3>2, <5>1, <1>b DEF Content
          <5>3. Known(Read.key)
            BY <5>2, <1>a, NothingKey DEF FileOK, Known, Read
          <5>4. Read.key <= MaxKeys
            BY <5>2, <5>3, <1>a, BoundsAssumption DEF KeysDrawn, GateTypes
          <5> QED BY <3>2, <5>1, <5>2, <5>4, ForeignAssumption, BoundsAssumption
        <4>2. want[r] \in Behind
          BY <3>2 DEF TypeInv, Route
        <4>3. /\ ~Rewriting(r)'
              /\ pc'[r] # "issue" /\ pc'[r] # "redirected"
          BY <3>2, <4>2, <1>c DEF Goto, Rewriting, Behind, Direction
        <4>4. \A q \in Requests \ {r} : UNCHANGED <<pc[q], want[q], was[q]>>
          BY <3>2, <1>c DEF Goto
        <4>5. /\ UNCHANGED <<file, data, keys, issued, founded, was>>
              /\ IsCalibrated => IsCalibrated'
          BY <3>2 DEF auth, past, IsCalibrated, calibration
        <4> QED BY <4>1, <4>3, <4>4, <4>5, <1>1
      <3>3. CASE Begin(r, WithKey(Read, keys + 1), "truncateKey") /\ Read.key = 0
        <4>1. /\ WithKey(Read, keys + 1) \in Content
              /\ WithKey(Read, keys + 1).key = keys + 1
          BY <3>3, <1>a, <1>b, KeyOf
        <4> QED BY <3>3, <4>1, BeginGate
      <3> QED BY <2>3, <3>1, <3>2, <3>3 DEF Session
    <2>4. CASE SetupPassword(r)
      <3>1. want[r] = "setup" /\ Begin(r, SetPassword(Read), "truncate")
        BY <2>4 DEF SetupPassword, Asked
      <3>2. /\ SetPassword(Read).key = IF Read.key = 0 THEN keys + 1 ELSE Read.key
            /\ SetPassword(Read).password
        BY <1>a, KeyOf
      <3> QED BY <3>1, <3>2, <1>b, BeginGate
    <2>5. CASE MintToken(r) \/ RevokeToken(r)
      <3>1. /\ pc[r] \in {"mint", "revoke"} /\ want[r] = pc[r] /\ Changes(r)
        BY <2>5 DEF MintToken, RevokeToken, Asked, Changes
      <3>2. Read.key # 0
        <4>1. Past(r) /\ Readable
          BY <2>5 DEF MintToken, RevokeToken, Begin, Past
        <4> QED BY <4>1, <1>a DEF FileOK, Written, Readable, Read
      <3>3. PICK d \in Content :
              /\ Begin(r, d, "truncate")
              /\ d.key = Read.key /\ d.password = Read.password
        <4>1. CASE MintToken(r)
          <5>1. Mint(Read).key = Read.key /\ Mint(Read).password = Read.password
            BY <1>a, KeyOf
          <5> QED BY <4>1, <5>1, <1>b DEF MintToken
        <4>2. CASE RevokeToken(r)
          <5>1. PICK t \in 1..tokens : Begin(r, Revoke(Read, t), "truncate")
            BY <4>2 DEF RevokeToken
          <5>2. t \in Nat
            BY <1>a DEF TypeOK
          <5>3. /\ Revoke(Read, t).key = Read.key
                /\ Revoke(Read, t).password = Read.password
            BY <5>2, <1>a, KeyOf
          <5> QED BY <5>1, <5>2, <5>3, <1>b
        <4> QED BY <2>5, <4>1, <4>2
      <3> QED BY <3>1, <3>2, <3>3, BeginGate
    <2>6. CASE StartWrite(r) \/ StartWriteKey(r)
      BY <2>6, <1>c, WriteGate DEF StartWrite, StartWriteKey, TruncateFile, Goto, past
    <2>7. CASE EndWrite(r)
      <3>1. /\ Write(r) /\ pc[r] = "write" /\ (want[r] = "setup" => Sets(r))
            /\ UNCHANGED <<keys, issued, founded, calibration>>
        BY <2>7 DEF EndWrite, Sets
      <3>2. data' = [data EXCEPT ![r] = Nothing]
        BY <2>7 DEF EndWrite
      <3>3. /\ pc'[r] = "idle" \/ (pc'[r] = "issue" /\ Sets(r))
            /\ was'[r] => was[r]
            /\ \A q \in Requests \ {r} : UNCHANGED <<pc[q], want[q], was[q], data[q]>>
        BY <2>7, <3>1, <3>2, <1>a DEF EndWrite, Forget, Goto, GateTypes
      <3> QED BY <3>1, <3>3, WriteGate
    <2>8. CASE EndWriteKey(r)
      <3>1. /\ Write(r) /\ pc[r] = "writeKey" /\ pc'[r] = "idle"
            /\ was'[r] => was[r]
            /\ UNCHANGED <<keys, issued, founded, calibration>>
            /\ \A q \in Requests \ {r} : UNCHANGED <<pc[q], want[q], was[q], data[q]>>
        BY <2>8, <1>a DEF EndWriteKey, Forget, Goto, past, GateTypes
      <3> QED BY <3>1, WriteGate
    <2>9. CASE IssueSession(r)
      <3>1. /\ pc[r] = "issue" /\ file.shape = "whole"
            /\ issued' = issued \cup {file.holds.key}
            /\ pc' = [pc EXCEPT ![r] = "idle"] /\ want' = [want EXCEPT ![r] = "page"]
            /\ was' = [was EXCEPT ![r] = FALSE]
            /\ UNCHANGED <<file, data, keys, founded, calibration>>
        BY <2>9, <1>a DEF IssueSession, Written, Past, Readable, Read, Forget, Goto, auth
      <3>2. Live
        BY <3>1 DEF Live
      <3>3. DrawsAlone' /\ SetsPassword' /\ ChangesLater'
        BY <3>1, <1>a DEF DrawsAlone, DrawsKey, Rewriting, SetsPassword, Sets,
           ChangesLater, Changes
      <3>4. HasPassword'
        BY <3>1, <3>2, <1>a DEF HasPassword, Rewriting
      <3>5. WasSetUp'
        BY <3>1, <1>c, <1>a DEF WasSetUp, IsCalibrated, calibration
      <3>6. KeysDrawn'
        BY <3>1, <1>a DEF KeysDrawn, Known, Rewriting
      <3> QED BY <3>3, <3>4, <3>5, <3>6 DEF GateInv
    <2>10. CASE MeasureScale(r) \/ SaveCalibration(r) \/ GiveUpSave(r) \/ EndSave(r)
      <3>1. /\ UNCHANGED <<file, data, keys, issued, founded>>
            /\ \A q \in Requests \ {r} : UNCHANGED <<pc[q], want[q], was[q]>>
            /\ was'[r] => was[r]
            /\ pc'[r] \in {"save", "commit", "idle"}
        BY <2>10, <1>c
           DEF MeasureScale, SaveCalibration, GiveUpSave, EndSave, Forget, Goto, auth, past
      <3>2. IsCalibrated => IsCalibrated'
        <4>1. CASE EndSave(r)
          BY <4>1 DEF EndSave, CommitMeasure, Activate, Rollback, IsCalibrated
        <4> QED BY <2>10, <4>1
              DEF MeasureScale, Measure, SaveCalibration, Deactivate, GiveUpSave,
                  SaveTimesOut, IsCalibrated
      <3>3. ~Rewriting(r)'
        BY <3>1 DEF Rewriting
      <3> QED BY <3>1, <3>2, <3>3, <1>1
    <2> QED BY <1>2, <2>1, <2>2, <2>3, <2>4, <2>5, <2>6, <2>7, <2>8, <2>9, <2>10
          DEF Handle
  <1>3. CASE Crash
    <2>1. /\ \A r \in Requests : pc'[r] = "idle" /\ ~was'[r]
          /\ UNCHANGED <<file, keys, issued, founded>>
      BY <1>3 DEF Crash, past
    <2> QED BY <2>1, GateFrame, <1>c DEF Rewriting, Changes, KeyInv
  <1>4. CASE CommandLine
    <2>1. /\ UNCHANGED <<file, data, keys, issued, founded, pc, want, was>>
          /\ IsCalibrated'
      BY <1>4
         DEF CommandLine, CliCalibrate, Activate, auth, requests, past, IsCalibrated
    <2> QED BY <2>1, GateFrame, <1>c DEF Rewriting, Changes, Live
  <1>5. CASE UNCHANGED vars
    BY <1>5, <1>a, GateFrame DEF vars, Rewriting, Changes, Live, IsCalibrated, WasSetUp
  <1> QED BY <1>2, <1>3, <1>4, <1>5 DEF Next

LEMMA GateInit == Init => GateInv
  BY BoundsAssumption, NothingKey
     DEF Init, AuthInit, GateInv, DrawsAlone, DrawsKey, SetsPassword, Sets, ChangesLater,
         Changes, HasPassword, Live, WasSetUp, KeysDrawn, Known, Rewriting

(* A request that came when password and calibration were there is not     *)
(* sent to the wizard, whoever rewrites the one or the other, unless two   *)
(* requests found no key at the same time (middleware.py: first_run_gate). *)
THEOREM GateStaysOpenHolds == Spec => []GateStaysOpen
  <1>1. GateInv => GateStaysOpen
    BY DEF GateInv, WasSetUp, GateStaysOpen
  <1> QED BY <1>1, GateInit, GateStep, KeyInvariant, PTL DEF Spec
=============================================================================
