------------------------ MODULE DeviceRegistryProofs ------------------------
(***************************************************************************)
(* What requests that run side by side may do to the devices, proved for   *)
(* any number of requests and any devices, tokens, bodies and columns.     *)
(***************************************************************************)
EXTENDS DeviceRegistry, TLAPS

TokensUnique ==
    \A d, e \in DOMAIN devices : devices[d].token = devices[e].token => d = e

\* A query by token finds one device at most.
OneOwner == \A r \in Request : \A d, e \in session[r].owner : d = e

\* The device found is another one.
OwnerElsewhere ==
    \A r \in Request : session[r].device \notin session[r].owner

\* What a request has read is what the tables hold, until another commits.
ReadNow(s) ==
    /\ s.op \in {"register", "enable", "disable"} =>
            s.row = RowOf(devices, s.device)
    /\ s.op # "register" => s.device \in DOMAIN devices
    /\ s.op \in {"put", "patch"} => s.lines = RowOf(preferences, s.device)

OwnerNow(s) ==
    s.owner = {d \in DOMAIN devices \ {s.device} : devices[d].token = s.body}

ReadsFresh ==
    \A r \in Request :
        pc[r] # "idle" /\ ~overtaken[r] =>
            /\ ReadNow(session[r])
            /\ pc[r] = "commit" /\ session[r].op = "register" =>
                    OwnerNow(session[r])

IInv == TypeOK /\ TokensUnique /\ OneOwner /\ OwnerElsewhere /\ ReadsFresh

Sessions == Registering \cup Writing \cup Other \cup {NoSession}

-----------------------------------------------------------------------------
LEMMA DeviceForm ==
    \A t : t \in UNION {[D -> DeviceRow] : D \in SUBSET Device} <=>
        DOMAIN t \subseteq Device /\ t \in [DOMAIN t -> DeviceRow]
OBVIOUS

LEMMA PreferencesForm ==
    \A t, X : t \in UNION {[D -> LineTable] : D \in SUBSET X} <=>
        DOMAIN t \subseteq X /\ t \in [DOMAIN t -> LineTable]
OBVIOUS

LEMMA LinesForm ==
    \A t : t \in LineTable <=>
        DOMAIN t \subseteq Line /\ t \in [DOMAIN t -> Preference]
BY DEF LineTable

LEMMA PatchForm ==
    ASSUME NEW b \in PatchBody
    PROVE  /\ DOMAIN b \subseteq Line
           /\ \A l \in DOMAIN b :
                \/ b[l] = Null
                \/ /\ DOMAIN b[l] \subseteq Field
                   /\ b[l] \in [DOMAIN b[l] -> Value]
<1>1. PICK L \in SUBSET Line :
        b \in [L -> {Null} \cup UNION {[F -> Value] : F \in SUBSET Field}]
  BY BodyAssumption DEF PatchTable
<1>2. QED
  BY <1>1

\* The fields of a session.
LEMMA SessionFields ==
    ASSUME NEW s \in Sessions
    PROVE  /\ s.row \subseteq DeviceRow
           /\ s.owner \subseteq Device
           /\ s.lines \subseteq LineTable
           /\ s # NoSession => s.device \in Device
           /\ s.op = "register" <=> s \in Registering
           /\ s.op \in {"put", "patch"} <=> s \in Writing
           /\ s.op \in {"enable", "disable", "delete"} <=> s \in Other
           /\ s.op = "none" <=> s = NoSession
           /\ s.op = "register" => s.body \in Token
           /\ s.op = "put" => s.body \in PutBody
           /\ s.op = "patch" => s.body \in PatchBody
BY DEF Sessions, Registering, Writing, Other, NoSession, SessionOf

LEMMA RowsRead ==
    ASSUME TypeOK, NEW d \in Device
    PROVE  /\ RowOf(devices, d) \subseteq DeviceRow
           /\ RowOf(preferences, d) \subseteq LineTable
BY DeviceForm, PreferencesForm DEF TypeOK, RowOf

-----------------------------------------------------------------------------
\* Types.
LEMMA InitTypes == Init => TypeOK
<1> SUFFICES ASSUME Init PROVE TypeOK
  OBVIOUS
<1>1. DOMAIN Empty = {} /\ \A X : Empty \in [{} -> X]
  BY DEF Empty
<1>2. /\ devices \in UNION {[D -> DeviceRow] : D \in SUBSET Device}
      /\ preferences \in UNION {[D -> LineTable] : D \in SUBSET DOMAIN devices}
  BY <1>1 DEF Init
<1>3. QED
  BY <1>2 DEF Init, TypeOK

LEMMA BeginTypes ==
    ASSUME TypeOK, NEW r \in Request, NEW d \in Device,
           \/ BeginRegister(r, d) \/ BeginPut(r, d) \/ BeginPatch(r, d)
           \/ BeginToggle(r, d) \/ BeginDelete(r, d)
    PROVE  TypeOK'
<1> DEFINE new(op, body, row, lines) ==
        [op |-> op, device |-> d, body |-> body,
         row |-> row, owner |-> {}, lines |-> lines]
<1>1. ASSUME NEW t \in Token PROVE new("register", t, RowOf(devices, d), {}) \in Registering
  BY RowsRead DEF Registering, SessionOf
<1>2. ASSUME NEW b \in PutBody PROVE new("put", b, {}, RowOf(preferences, d)) \in Writing
  BY RowsRead DEF Writing, SessionOf
<1>3. ASSUME NEW b \in PatchBody PROVE new("patch", b, {}, RowOf(preferences, d)) \in Writing
  BY RowsRead DEF Writing, SessionOf
<1>4. ASSUME NEW op \in {"enable", "disable"}
      PROVE  new(op, None, RowOf(devices, d), {}) \in Other
  BY RowsRead DEF Other, SessionOf
<1>5. new("delete", None, {}, {}) \in Other
  BY DEF Other, SessionOf
<1>6. NoSession \notin Registering \cup Writing \cup Other
  BY DEF NoSession, Registering, Writing, Other, SessionOf
<1> HIDE DEF new
<1>7. CASE BeginRegister(r, d)
  BY <1>1, <1>6, <1>7 DEF BeginRegister, Begin, TypeOK, tables, new
<1>8. CASE BeginPut(r, d)
  BY <1>2, <1>6, <1>8 DEF BeginPut, Begin, TypeOK, tables, new
<1>9. CASE BeginPatch(r, d)
  BY <1>3, <1>6, <1>9 DEF BeginPatch, Begin, TypeOK, tables, new
<1>10. CASE BeginToggle(r, d)
  <2>1. PICK op \in {"enable", "disable"} :
            Begin(r, op, d, None, RowOf(devices, d), {}, "commit")
    BY <1>10 DEF BeginToggle
  <2>2. /\ session' = [session EXCEPT ![r] = new(op, None, RowOf(devices, d), {})]
        /\ pc' = [pc EXCEPT ![r] = "commit"]
        /\ overtaken' = [overtaken EXCEPT ![r] = FALSE]
        /\ UNCHANGED <<devices, preferences>>
    BY <2>1 DEF Begin, tables, new
  <2>3. new(op, None, RowOf(devices, d), {}) \in Other
    BY <1>4
  <2>4. QED
    BY <1>6, <2>2, <2>3 DEF TypeOK
<1>11. CASE BeginDelete(r, d)
  BY <1>5, <1>6, <1>11 DEF BeginDelete, Begin, TypeOK, tables, new
<1>12. QED
  BY <1>7, <1>8, <1>9, <1>10, <1>11

LEMMA ReadTypes ==
    ASSUME TypeOK, NEW r \in Request, ReadOwner(r) \/ ReadPreferences(r)
    PROVE  TypeOK'
<1>1. CASE ReadOwner(r)
  <2>1. session[r] \in Registering
    BY <1>1 DEF ReadOwner, TypeOK
  <2>2. DOMAIN devices \subseteq Device
    BY DeviceForm DEF TypeOK
  <2>3. [session[r] EXCEPT !.owner =
            {d \in DOMAIN devices \ {session[r].device} :
                devices[d].token = session[r].body}] \in Registering
    BY <2>1, <2>2 DEF Registering, SessionOf
  <2>4. NoSession \notin Registering
    BY DEF NoSession, Registering, SessionOf
  <2>5. QED
    BY <1>1, <2>3, <2>4 DEF ReadOwner, TypeOK, tables
<1>2. CASE ReadPreferences(r)
  <2>1. session[r] \in Writing /\ session[r].device \in Device
    BY <1>2, SessionFields DEF ReadPreferences, TypeOK, Writing, SessionOf
  <2>2. ASSUME NEW X \in SUBSET LineTable
        PROVE  [session[r] EXCEPT !.lines = X] \in Writing
    BY <2>1 DEF Writing, SessionOf
  <2>3. RowOf(preferences, session[r].device) \subseteq LineTable
    BY <2>1, RowsRead
  <2>4. session[r].lines \subseteq LineTable
    BY <2>1 DEF Writing, SessionOf
  <2>5. NoSession \notin Writing
    BY DEF NoSession, Writing, SessionOf
  <2>6. session' \in [Request -> Sessions] /\ session'[r] \in Writing
    BY <1>2, <2>2, <2>3, <2>4 DEF ReadPreferences, TypeOK, Sessions
  <2>7. QED
    BY <1>2, <2>5, <2>6 DEF ReadPreferences, TypeOK, tables, Sessions
<1>3. QED
  BY <1>1, <1>2

\* A session that ends, with or without a commit.
LEMMA EndTypes ==
    ASSUME TypeOK, NEW r \in Request,
           /\ pc' = [pc EXCEPT ![r] = "idle"]
           /\ session' = [session EXCEPT ![r] = NoSession]
    PROVE  /\ pc' \in [Request -> {"idle", "owner", "preferences", "commit"}]
           /\ session' \in [Request -> Registering \cup Writing \cup Other \cup {NoSession}]
           /\ \A q \in Request :
                /\ pc'[q] = "owner" => session'[q] \in Registering
                /\ pc'[q] = "preferences" => session'[q] \in Writing
                /\ pc'[q] = "commit" => session'[q] # NoSession
BY DEF TypeOK

LEMMA LeaveTypes ==
    ASSUME TypeOK, NEW r \in Request, Leave(r)
    PROVE  TypeOK'
BY EndTypes DEF Leave, TypeOK, tables

LEMMA RegisterTypes ==
    ASSUME TypeOK, NEW r \in Request, CommitRegister(r)
    PROVE  TypeOK'
<1> DEFINE s == session[r]
<1>1. s \in Sessions /\ s.op = "register"
  BY DEF CommitRegister, TypeOK, Sessions
<1>2. s.device \in Device /\ s.body \in Token /\ s \in Registering
  BY <1>1, SessionFields DEF Registering, SessionOf
<1>3. DOMAIN devices \subseteq Device /\ devices \in [DOMAIN devices -> DeviceRow]
  BY DeviceForm DEF TypeOK
<1>4. RegisterSucceeds(s)
  BY DEF CommitRegister
<1>5. Registered(s) \in DeviceRow
  BY <1>2, <1>3, <1>4 DEF Registered, DeviceRow, RegisterSucceeds
<1>6. /\ DOMAIN devices' = (DOMAIN devices \ s.owner) \cup {s.device}
      /\ \A d \in DOMAIN devices' : devices'[d] =
            IF d = s.device THEN Registered(s) ELSE devices[d]
      /\ devices' = [d \in DOMAIN devices' |-> devices'[d]]
  BY DEF CommitRegister
<1>7. devices' \in UNION {[D -> DeviceRow] : D \in SUBSET Device}
  BY <1>2, <1>3, <1>5, <1>6, DeviceForm
<1>8. DOMAIN preferences \subseteq DOMAIN devices /\ preferences \in [DOMAIN preferences -> LineTable]
  BY PreferencesForm DEF TypeOK
<1>9. /\ DOMAIN preferences' = DOMAIN preferences \cap (DOMAIN devices \ s.owner)
      /\ preferences' \in [DOMAIN preferences' -> LineTable]
  BY <1>8 DEF CommitRegister, PreferencesLeft, KeptPreferences
<1>10. preferences' \in UNION {[D -> LineTable] : D \in SUBSET DOMAIN devices'}
  BY <1>6, <1>9, PreferencesForm
<1>11. overtaken' \in [Request -> BOOLEAN]
  BY DEF CommitRegister, Committed, TypeOK
<1>12. QED
  BY <1>7, <1>10, <1>11, EndTypes DEF CommitRegister, Committed, TypeOK

\* What a request writes is a table of lines again.
LEMMA WrittenTypes ==
    ASSUME TypeOK, NEW r \in Request, CommitWrite(r)
    PROVE  /\ session[r].device \in Device
           /\ session[r].device \in DOMAIN devices
           /\ Written(session[r]) \in LineTable
<1> DEFINE s == session[r]
<1>1. s \in Sessions /\ s.op \in {"put", "patch"} /\ Complete(s) /\ WriteSucceeds(s)
  BY DEF CommitWrite, TypeOK, Sessions
<1>2. s.device \in Device /\ s.body \in PutBody \cup PatchBody
  BY <1>1, SessionFields DEF Writing, SessionOf
<1>3. DOMAIN preferences \subseteq DOMAIN devices /\ preferences \in [DOMAIN preferences -> LineTable]
  BY PreferencesForm DEF TypeOK
<1>4. s.device \in DOMAIN devices
  BY <1>1, <1>3 DEF WriteSucceeds
<1>5. /\ LinesNow(s) \subseteq Line
      /\ \A l \in LinesNow(s) : /\ s.device \in DOMAIN preferences
                                /\ preferences[s.device][l] \in Preference
  <2>1. CASE s.device \in DOMAIN preferences
    <3>1. LinesNow(s) = DOMAIN preferences[s.device]
      BY <2>1 DEF LinesNow, RowOf
    <3>2. preferences[s.device] \in LineTable
      BY <1>3, <2>1
    <3>3. QED
      BY <2>1, <3>1, <3>2, LinesForm
  <2>2. CASE s.device \notin DOMAIN preferences
    BY <2>2 DEF LinesNow, RowOf
  <2>3. QED
    BY <2>1, <2>2
<1>6. ASSUME NEW l \in DOMAIN s.body, s.body[l] # Null
      PROVE  /\ l \in Line
             /\ \A f \in DOMAIN s.body[l] : f \in Field /\ s.body[l][f] \in Value
             /\ s.body[l] = [f \in DOMAIN s.body[l] |-> s.body[l][f]]
  <2>1. CASE s.body \in PutBody
    BY <1>6, <2>1, BodyAssumption, LinesForm DEF Preference
  <2>2. CASE s.body \in PatchBody
    BY <1>6, <2>2, PatchForm
  <2>3. QED
    BY <1>2, <2>1, <2>2
<1>7. ASSUME NEW l \in Inserted(s) PROVE l \in Line /\ LineWritten(s, l) \in Preference
  <2>1. l \in DOMAIN s.body /\ s.body[l] # Null /\ DOMAIN s.body[l] = Field
    BY <1>1, <1>7 DEF Inserted, Named, Complete
  <2>2. QED
    BY <1>6, <1>7, <2>1 DEF LineWritten, Preference
<1>8. ASSUME NEW l \in LinesNow(s), l \notin Inserted(s)
      PROVE  LineWritten(s, l) \in Preference
  <2>1. ASSUME NEW f \in Field, l \in Updated(s), f \in Changed(s, l)
        PROVE  s.body[l][f] \in Value
    BY <1>6, <2>1 DEF Updated, Named, Changed
  <2>2. preferences[s.device][l] \in [Field -> Value]
    BY <1>5 DEF Preference
  <2>3. QED
    BY <1>8, <2>1, <2>2 DEF LineWritten, Preference
<1>9. QED
  BY <1>2, <1>4, <1>5, <1>7, <1>8, LinesForm DEF Written

LEMMA WriteTypes ==
    ASSUME TypeOK, NEW r \in Request, CommitWrite(r)
    PROVE  TypeOK'
<1> DEFINE s == session[r]
<1>1. DOMAIN preferences \subseteq DOMAIN devices /\ preferences \in [DOMAIN preferences -> LineTable]
  BY PreferencesForm DEF TypeOK
<1>2. /\ DOMAIN preferences' = DOMAIN preferences \cup {s.device}
      /\ preferences' \in [DOMAIN preferences' -> LineTable]
  BY <1>1, WrittenTypes DEF CommitWrite
<1>3. preferences' \in UNION {[D -> LineTable] : D \in SUBSET DOMAIN devices'}
  <2>1. devices' = devices /\ s.device \in DOMAIN devices
    BY WrittenTypes DEF CommitWrite
  <2>2. DOMAIN preferences' \in SUBSET DOMAIN devices'
    BY <1>1, <1>2, <2>1
  <2>3. QED
    BY <1>2, <2>2
<1>4. overtaken' \in [Request -> BOOLEAN]
  BY DEF CommitWrite, Committed, TypeOK
<1>5. QED
  BY <1>3, <1>4, EndTypes DEF CommitWrite, Committed, TypeOK

LEMMA ToggleTypes ==
    ASSUME TypeOK, NEW r \in Request, CommitToggle(r)
    PROVE  TypeOK'
<1> DEFINE s == session[r]
<1>1. DOMAIN devices \subseteq Device /\ devices \in [DOMAIN devices -> DeviceRow]
  BY DeviceForm DEF TypeOK
<1>2. DOMAIN devices' = DOMAIN devices /\ devices' \in [DOMAIN devices -> DeviceRow]
  BY <1>1 DEF CommitToggle, DeviceRow
<1>3. devices' \in UNION {[D -> DeviceRow] : D \in SUBSET Device}
  BY <1>1, <1>2
<1>4. overtaken' \in [Request -> BOOLEAN]
  BY DEF CommitToggle, Committed, TypeOK
<1>5. preferences' \in UNION {[D -> LineTable] : D \in SUBSET DOMAIN devices'}
  BY <1>2 DEF CommitToggle, TypeOK
<1>6. QED
  BY <1>3, <1>4, <1>5, EndTypes DEF CommitToggle, Committed, TypeOK

LEMMA DeleteTypes ==
    ASSUME TypeOK, NEW r \in Request, CommitDelete(r)
    PROVE  TypeOK'
<1> DEFINE s == session[r]
<1>1. DOMAIN devices \subseteq Device /\ devices \in [DOMAIN devices -> DeviceRow]
  BY DeviceForm DEF TypeOK
<1>2. /\ DOMAIN devices' = DOMAIN devices \ {s.device}
      /\ devices' \in [DOMAIN devices' -> DeviceRow]
  BY <1>1 DEF CommitDelete
<1>3. devices' \in UNION {[D -> DeviceRow] : D \in SUBSET Device}
  BY <1>1, <1>2
<1>4. DOMAIN preferences \subseteq DOMAIN devices /\ preferences \in [DOMAIN preferences -> LineTable]
  BY PreferencesForm DEF TypeOK
<1>5. /\ DOMAIN preferences' = DOMAIN preferences \cap (DOMAIN devices \ {s.device})
      /\ preferences' \in [DOMAIN preferences' -> LineTable]
  BY <1>4 DEF CommitDelete, KeptPreferences
<1>6. preferences' \in UNION {[D -> LineTable] : D \in SUBSET DOMAIN devices'}
  BY <1>2, <1>5, PreferencesForm
<1>7. overtaken' \in [Request -> BOOLEAN]
  BY DEF CommitDelete, Committed, TypeOK
<1>8. QED
  BY <1>3, <1>6, <1>7, EndTypes DEF CommitDelete, Committed, TypeOK

LEMMA StepTypes == TypeOK /\ [Next]_vars => TypeOK'
<1> SUFFICES ASSUME TypeOK, [Next]_vars PROVE TypeOK'
  OBVIOUS
<1>1. CASE UNCHANGED vars
  BY <1>1 DEF vars, tables, TypeOK
<1>2. CASE Next
  BY <1>2, BeginTypes, ReadTypes, LeaveTypes, RegisterTypes, WriteTypes,
     ToggleTypes, DeleteTypes
  DEF Next, RejectIncomplete, Conflict, Abandon
<1>3. QED
  BY <1>1, <1>2

-----------------------------------------------------------------------------
\* Keys and reads.
LEMMA BeginShape ==
    ASSUME NEW r \in Request, NEW d \in Device,
           \/ BeginRegister(r, d) \/ BeginPut(r, d) \/ BeginPatch(r, d)
           \/ BeginToggle(r, d) \/ BeginDelete(r, d)
    PROVE  \E op, body, row, lines, next :
            /\ Begin(r, op, d, body, row, lines, next)
            /\ op \in {"register", "enable", "disable"} => row = RowOf(devices, d)
            /\ op \in {"put", "patch"} => lines = RowOf(preferences, d)
            /\ op = "register" => next # "commit"
<1>1. CASE BeginRegister(r, d)
  <2>1. PICK t : Begin(r, "register", d, t, RowOf(devices, d), {}, "owner")
    BY <1>1 DEF BeginRegister
  <2>2. QED
    BY <2>1
<1>2. CASE BeginPut(r, d)
  <2>1. PICK b : Begin(r, "put", d, b, {}, RowOf(preferences, d), "preferences")
    BY <1>2 DEF BeginPut
  <2>2. QED
    BY <2>1
<1>3. CASE BeginPatch(r, d)
  <2>1. PICK b : Begin(r, "patch", d, b, {}, RowOf(preferences, d), "preferences")
    BY <1>3 DEF BeginPatch
  <2>2. QED
    BY <2>1
<1>4. CASE BeginToggle(r, d)
  <2>1. PICK op \in {"enable", "disable"} :
            Begin(r, op, d, None, RowOf(devices, d), {}, "commit")
    BY <1>4 DEF BeginToggle
  <2>2. QED
    BY <2>1
<1>5. CASE BeginDelete(r, d)
  <2>1. Begin(r, "delete", d, None, {}, {}, "commit")
    BY <1>5 DEF BeginDelete
  <2>2. QED
    BY <2>1
<1>6. QED
  BY <1>1, <1>2, <1>3, <1>4, <1>5

LEMMA UniqueStep ==
    ASSUME TypeOK, TokensUnique, OneOwner, OwnerElsewhere, [Next]_vars
    PROVE  TokensUnique' /\ OneOwner' /\ OwnerElsewhere'
<1>1. CASE UNCHANGED vars
  BY <1>1 DEF vars, tables, TokensUnique, OneOwner, OwnerElsewhere
<1>2. ASSUME NEW r \in Request, NEW d \in Device,
             \/ BeginRegister(r, d) \/ BeginPut(r, d) \/ BeginPatch(r, d)
             \/ BeginToggle(r, d) \/ BeginDelete(r, d)
      PROVE  TokensUnique' /\ OneOwner' /\ OwnerElsewhere'
  <2>0. PICK op, body, row, lines, next : Begin(r, op, d, body, row, lines, next)
    BY <1>2, BeginShape
  <2> DEFINE new == [op |-> op, device |-> d, body |-> body,
                     row |-> row, owner |-> {}, lines |-> lines]
  <2>1. session' = [session EXCEPT ![r] = new] /\ new.owner = {}
    BY <2>0 DEF Begin
  <2>2. UNCHANGED <<devices, preferences>>
    BY <2>0 DEF Begin, tables
  <2>3. QED
    BY <2>1, <2>2 DEF TypeOK, TokensUnique, OneOwner, OwnerElsewhere
<1>3. ASSUME NEW r \in Request, ReadOwner(r) PROVE TokensUnique' /\ OneOwner' /\ OwnerElsewhere'
  <2>1. session[r] \in Registering
    BY <1>3 DEF ReadOwner, TypeOK
  <2>2. /\ session'[r].owner = {d \in DOMAIN devices \ {session[r].device} :
                                devices[d].token = session[r].body}
        /\ session'[r].device = session[r].device
    BY <1>3, <2>1 DEF ReadOwner, TypeOK, Registering, SessionOf
  <2>3. QED
    BY <1>3, <2>2 DEF ReadOwner, TypeOK, tables, TokensUnique, OneOwner, OwnerElsewhere
<1>4. ASSUME NEW r \in Request, ReadPreferences(r) PROVE TokensUnique' /\ OneOwner' /\ OwnerElsewhere'
  <2>1. session[r] \in Writing
    BY <1>4 DEF ReadPreferences, TypeOK
  <2>2. /\ session'[r].owner = session[r].owner
        /\ session'[r].device = session[r].device
    BY <1>4, <2>1 DEF ReadPreferences, TypeOK, Writing, SessionOf
  <2>3. QED
    BY <1>4, <2>2 DEF ReadPreferences, TypeOK, tables, TokensUnique, OneOwner, OwnerElsewhere
<1>5. ASSUME NEW r \in Request, session' = [session EXCEPT ![r] = NoSession]
      PROVE  OneOwner' /\ OwnerElsewhere'
  BY <1>5 DEF TypeOK, OneOwner, OwnerElsewhere, NoSession
<1>6. ASSUME NEW r \in Request, Leave(r) PROVE TokensUnique' /\ OneOwner' /\ OwnerElsewhere'
  BY <1>5, <1>6 DEF Leave, tables, TokensUnique
<1>7. ASSUME NEW r \in Request, CommitRegister(r) PROVE TokensUnique' /\ OneOwner' /\ OwnerElsewhere'
  <2> DEFINE s == session[r]
  <2>1. s \in Registering
    BY <1>7, SessionFields DEF CommitRegister, TypeOK, Sessions
  <2>2. RegisterSucceeds(s)
    BY <1>7 DEF CommitRegister
  <2>3. ASSUME NEW d \in DOMAIN devices', d # s.device
        PROVE  d \in Survivors(s) /\ devices'[d] = devices[d]
    BY <1>7, <2>3 DEF CommitRegister, Survivors
  <2>4. devices'[s.device] = Registered(s)
    BY <1>7 DEF CommitRegister
  <2>5. CASE TakesToken(s)
    <3>1. Registered(s).token = s.body
      <4>1. CASE s.row = {}
        BY <4>1 DEF Registered
      <4>2. CASE s.row # {}
        <5>1. s.device \in DOMAIN devices /\ devices[s.device] \in DeviceRow
          BY <2>2, <4>2, DeviceForm DEF RegisterSucceeds, TypeOK
        <5>2. QED
          BY <2>5, <4>2, <5>1 DEF Registered, DeviceRow
      <4>3. QED
        BY <4>1, <4>2
    <3>2. \A d \in DOMAIN devices' \ {s.device} : devices'[d].token # s.body
      BY <2>2, <2>3, <2>5 DEF RegisterSucceeds
    <3>3. TokensUnique'
      BY <2>3, <2>4, <3>1, <3>2 DEF TokensUnique, Survivors
    <3>4. QED
      BY <1>5, <1>7, <3>3 DEF CommitRegister, Committed
  <2>6. CASE ~ TakesToken(s)
    <3>1. s.row # {}
      BY <2>6 DEF TakesToken
    <3>2. s.device \in DOMAIN devices /\ devices[s.device] \in DeviceRow
      BY <2>2, <3>1, DeviceForm DEF RegisterSucceeds, TypeOK
    <3>3. Registered(s).token = devices[s.device].token
      BY <2>6, <3>1, <3>2 DEF Registered, DeviceRow
    <3>4. TokensUnique'
      BY <2>3, <2>4, <3>2, <3>3 DEF TokensUnique, Survivors
    <3>5. QED
      BY <1>5, <1>7, <3>4 DEF CommitRegister, Committed
  <2>7. QED
    BY <2>5, <2>6
<1>8. ASSUME NEW r \in Request, CommitWrite(r) PROVE TokensUnique' /\ OneOwner' /\ OwnerElsewhere'
  BY <1>5, <1>8 DEF CommitWrite, Committed, TokensUnique
<1>9. ASSUME NEW r \in Request, CommitToggle(r) PROVE TokensUnique' /\ OneOwner' /\ OwnerElsewhere'
  <2>1. devices \in [DOMAIN devices -> DeviceRow]
    BY DeviceForm DEF TypeOK
  <2>2. DOMAIN devices' = DOMAIN devices
    BY <1>9 DEF CommitToggle
  <2>3. \A d \in DOMAIN devices : devices'[d].token = devices[d].token
    BY <1>9, <2>1 DEF CommitToggle, DeviceRow
  <2>4. TokensUnique'
    BY <2>2, <2>3 DEF TokensUnique
  <2>5. QED
    BY <1>5, <1>9, <2>4 DEF CommitToggle, Committed
<1>10. ASSUME NEW r \in Request, CommitDelete(r) PROVE TokensUnique' /\ OneOwner' /\ OwnerElsewhere'
  BY <1>5, <1>10 DEF CommitDelete, Committed, TokensUnique
<1>11. QED
  BY <1>1, <1>2, <1>3, <1>4, <1>6, <1>7, <1>8, <1>9, <1>10
  DEF Next, RejectIncomplete, Conflict, Abandon

\* The reads of a request, whatever else it does.
Fresh(r) ==
    pc[r] # "idle" /\ ~overtaken[r] =>
        /\ ReadNow(session[r])
        /\ pc[r] = "commit" /\ session[r].op = "register" => OwnerNow(session[r])

\* A step of a request that does not commit leaves the others what they read.
LEMMA OthersFresh ==
    ASSUME TypeOK, ReadsFresh, NEW r \in Request, NEW q \in Request, q # r,
           NEW next, NEW new, NEW flag,
           pc' = [pc EXCEPT ![r] = next],
           session' = [session EXCEPT ![r] = new],
           overtaken' = [overtaken EXCEPT ![r] = flag] \/ overtaken' = overtaken,
           UNCHANGED <<devices, preferences>>
    PROVE  Fresh(q)'
<1>1. pc'[q] = pc[q] /\ session'[q] = session[q] /\ overtaken'[q] = overtaken[q]
  BY DEF TypeOK
<1>2. QED
  BY <1>1 DEF ReadsFresh, Fresh, ReadNow, OwnerNow, RowOf

\* After a commit nobody is said to be fresh but the idle.
LEMMA CommittedFresh ==
    ASSUME TypeOK, NEW r \in Request, Committed(r)
    PROVE  ReadsFresh'
BY DEF TypeOK, Committed, ReadsFresh

LEMMA FreshStep ==
    ASSUME TypeOK, ReadsFresh, [Next]_vars
    PROVE  ReadsFresh'
<1>0. ReadsFresh <=> \A r \in Request : Fresh(r)
  BY DEF ReadsFresh, Fresh
<1>0a. (\A r \in Request : Fresh(r)') => ReadsFresh'
  BY DEF ReadsFresh, Fresh
<1>1. CASE UNCHANGED vars
  BY <1>1 DEF vars, tables, ReadsFresh, ReadNow, OwnerNow, RowOf
<1>2. ASSUME NEW r \in Request, NEW d \in Device,
             \/ BeginRegister(r, d) \/ BeginPut(r, d) \/ BeginPatch(r, d)
             \/ BeginToggle(r, d) \/ BeginDelete(r, d)
      PROVE  ReadsFresh'
  <2>1. PICK op, body, row, lines, next :
            /\ Begin(r, op, d, body, row, lines, next)
            /\ op \in {"register", "enable", "disable"} => row = RowOf(devices, d)
            /\ op \in {"put", "patch"} => lines = RowOf(preferences, d)
            /\ op = "register" => next # "commit"
    BY <1>2, BeginShape
  <2> DEFINE new == [op |-> op, device |-> d, body |-> body,
                     row |-> row, owner |-> {}, lines |-> lines]
  <2>2. /\ session' = [session EXCEPT ![r] = new]
        /\ pc' = [pc EXCEPT ![r] = next]
        /\ overtaken' = [overtaken EXCEPT ![r] = FALSE]
        /\ UNCHANGED <<devices, preferences>>
    BY <2>1 DEF Begin, tables
  <2>3. op # "register" => d \in DOMAIN devices
    BY <2>1 DEF Begin
  <2>4. session'[r] = new /\ pc'[r] = next
    BY <2>2 DEF TypeOK
  <2>5. Fresh(r)'
    BY <2>1, <2>2, <2>3, <2>4 DEF Fresh, ReadNow, RowOf
  <2>6. ASSUME NEW q \in Request, q # r PROVE Fresh(q)'
    BY <2>2, <2>6, OthersFresh
  <2>7. QED
    BY <1>0a, <2>5, <2>6
<1>3. ASSUME NEW r \in Request, ReadOwner(r) PROVE ReadsFresh'
  <2>1. session[r] \in Registering /\ session[r].op = "register"
    BY <1>3 DEF ReadOwner, TypeOK, Registering, SessionOf
  <2> DEFINE new == [session[r] EXCEPT !.owner =
                        {d \in DOMAIN devices \ {session[r].device} :
                            devices[d].token = session[r].body}]
  <2>2. /\ session' = [session EXCEPT ![r] = new]
        /\ pc' = [pc EXCEPT ![r] = "commit"]
        /\ overtaken' = overtaken
        /\ UNCHANGED <<devices, preferences>>
    BY <1>3 DEF ReadOwner, tables
  <2>3. /\ new.op = session[r].op /\ new.row = session[r].row
        /\ new.device = session[r].device /\ new.body = session[r].body
        /\ new.owner = {d \in DOMAIN devices \ {session[r].device} :
                            devices[d].token = session[r].body}
    BY <2>1 DEF Registering, SessionOf
  <2>4. session'[r] = new /\ pc[r] # "idle"
    BY <1>3, <2>2 DEF TypeOK, ReadOwner
  <2> HIDE DEF new
  <2>5. Fresh(r)'
    BY <2>1, <2>2, <2>3, <2>4 DEF ReadsFresh, Fresh, ReadNow, OwnerNow, RowOf
  <2>6. ASSUME NEW q \in Request, q # r PROVE Fresh(q)'
    BY <2>2, <2>6, OthersFresh
  <2>7. QED
    BY <1>0a, <2>5, <2>6
<1>4. ASSUME NEW r \in Request, ReadPreferences(r) PROVE ReadsFresh'
  <2>1. session[r] \in Writing /\ session[r].op \in {"put", "patch"}
    BY <1>4 DEF ReadPreferences, TypeOK, Writing, SessionOf
  <2> DEFINE new == session'[r]
  <2>2. /\ session' = [session EXCEPT ![r] = new]
        /\ pc' = [pc EXCEPT ![r] = "commit"]
        /\ overtaken' = overtaken
        /\ UNCHANGED <<devices, preferences>>
    BY <1>4 DEF ReadPreferences, TypeOK, tables
  <2>3. /\ new.op = session[r].op /\ new.device = session[r].device
        /\ \/ new.lines = RowOf(preferences, session[r].device)
           \/ new.lines = session[r].lines
    BY <1>4, <2>1 DEF ReadPreferences, TypeOK, Writing, SessionOf
  <2>4. pc[r] # "idle"
    BY <1>4 DEF ReadPreferences
  <2> HIDE DEF new
  <2>5. Fresh(r)'
    <3>1. session'[r] = new
      BY DEF new
    <3>2. QED
      BY <2>1, <2>2, <2>3, <2>4, <3>1 DEF ReadsFresh, Fresh, ReadNow, RowOf
  <2>6. ASSUME NEW q \in Request, q # r PROVE Fresh(q)'
    BY <2>2, <2>6, OthersFresh
  <2>7. QED
    BY <1>0a, <2>5, <2>6
<1>5. ASSUME NEW r \in Request, Leave(r) PROVE ReadsFresh'
  <2>1. Fresh(r)'
    BY <1>5 DEF Leave, TypeOK, Fresh
  <2>2. ASSUME NEW q \in Request, q # r PROVE Fresh(q)'
    BY <1>5, <2>2, OthersFresh DEF Leave, tables
  <2>3. QED
    BY <1>0a, <2>1, <2>2
<1>6. QED
  BY <1>1, <1>2, <1>3, <1>4, <1>5, CommittedFresh
  DEF Next, RejectIncomplete, Conflict, Abandon,
      CommitRegister, CommitWrite, CommitToggle, CommitDelete

\* IInv is an inductive invariant: keys are unique, and what a request has
\* read is true until another one commits.
THEOREM Invariance == Spec => []IInv
<1>1. Init => IInv
  BY InitTypes DEF Init, IInv, TokensUnique, OneOwner, OwnerElsewhere, ReadsFresh, NoSession, Empty
<1>2. IInv /\ [Next]_vars => IInv'
  BY StepTypes, UniqueStep, FreshStep DEF IInv
<1>3. QED
  BY <1>1, <1>2, PTL DEF Spec

\* The tables, the sessions and what they hold keep their types, preferences
\* belong to a registered device, for any number of requests side by side.
THEOREM TypeCorrect == Spec => []TypeOK
<1>1. IInv => TypeOK
  BY DEF IInv
<1>2. QED
  BY <1>1, Invariance, PTL

-----------------------------------------------------------------------------
\* What commits do.
LEMMA UndisturbedStep == IInv => UndisturbedCanCommit
<1> SUFFICES ASSUME IInv, NEW r \in Request, pc[r] = "commit", ~overtaken[r]
             PROVE  CanCommit(session[r])
  BY DEF UndisturbedCanCommit
<1> DEFINE s == session[r]
<1>1. ReadNow(s) /\ (s.op = "register" => OwnerNow(s))
  BY DEF IInv, ReadsFresh
<1>2. s \in Sessions /\ s # NoSession
  BY DEF IInv, TypeOK, Sessions
<1>3. CASE s.op = "register"
  <2>1. s.device \in DOMAIN devices <=> s.row # {}
    BY <1>1, <1>3 DEF ReadNow, RowOf
  <2>2. \A d \in Survivors(s) \ {s.device} : devices[d].token # s.body
    BY <1>1, <1>3 DEF OwnerNow, Survivors
  <2>3. QED
    BY <1>3, <2>1, <2>2 DEF CanCommit, RegisterSucceeds
<1>4. CASE s.op \in {"put", "patch"}
  <2>1. s.lines = RowOf(preferences, s.device) /\ s.device \in DOMAIN devices
    BY <1>1, <1>4 DEF ReadNow
  <2>2. ReadLines(s) = LinesNow(s)
    BY <2>1 DEF ReadLines, LinesNow
  <2>3. Updated(s) \subseteq LinesNow(s)
    BY <2>2 DEF Updated
  <2>4. Inserted(s) \cap LinesNow(s) = {}
    BY <2>2 DEF Inserted
  <2>5. WriteSucceeds(s)
    BY <2>1, <2>3, <2>4 DEF WriteSucceeds, UpdateFails, RowOf
  <2>6. QED
    BY <1>4, <2>3, <2>5 DEF CanCommit
<1>5. CASE s.op \in {"enable", "disable"}
  BY <1>1, <1>5 DEF ReadNow, CanCommit
<1>6. CASE s.op = "delete"
  BY <1>6 DEF CanCommit
<1>7. s.op \in {"register", "put", "patch", "enable", "disable", "delete"}
  BY <1>2 DEF Sessions, Registering, Writing, Other, SessionOf
<1>8. QED
  BY <1>3, <1>4, <1>5, <1>6, <1>7

\* A request that no other overtook never fails on a key or a missing row.
THEOREM UndisturbedRequestsCommit == Spec => []UndisturbedCanCommit
BY UndisturbedStep, Invariance, PTL

\* The steps that leave the tables alone.
LEMMA Reads ==
    ASSUME NEW r \in Request,
           \/ \E d \in Device :
                \/ BeginRegister(r, d) \/ BeginPut(r, d) \/ BeginPatch(r, d)
                \/ BeginToggle(r, d) \/ BeginDelete(r, d)
           \/ ReadOwner(r) \/ ReadPreferences(r)
           \/ RejectIncomplete(r) \/ Conflict(r) \/ Abandon(r)
    PROVE  UNCHANGED <<devices, preferences>>
BY DEF BeginRegister, BeginPut, BeginPatch, BeginToggle, BeginDelete, Begin,
       ReadOwner, ReadPreferences, RejectIncomplete, Conflict, Abandon, Leave, tables

\* A step either leaves the tables alone or is a commit.
LEMMA Steps ==
    ASSUME [Next]_vars
    PROVE  \/ UNCHANGED <<devices, preferences>>
           \/ \E r \in Request : \/ CommitRegister(r) \/ CommitWrite(r)
                                 \/ CommitToggle(r) \/ CommitDelete(r)
BY Reads DEF Next, vars, tables

LEMMA EnabledStep ==
    ASSUME TypeOK, [Next]_vars, NEW d \in DOMAIN devices \cap DOMAIN devices',
           devices'[d].enabled # devices[d].enabled
    PROVE  \E r \in Request :
                /\ pc[r] = "commit" /\ pc'[r] = "idle"
                /\ session[r].device = d
                /\ session[r].op \in {"enable", "disable"}
<1>1. devices \in [DOMAIN devices -> DeviceRow]
  BY DeviceForm DEF TypeOK
<1>2. ASSUME NEW r \in Request, CommitRegister(r) PROVE FALSE
  <2>1. d = session[r].device
    BY <1>2 DEF CommitRegister
  <2>2. devices'[d] = Registered(session[r]) /\ RegisterSucceeds(session[r])
    BY <1>2, <2>1 DEF CommitRegister
  <2>3. session[r].row # {}
    BY <2>1, <2>2 DEF RegisterSucceeds
  <2>4. devices'[d].enabled = devices[d].enabled
    BY <1>1, <2>1, <2>2, <2>3 DEF Registered, DeviceRow
  <2>5. QED
    BY <2>4
<1>3. ASSUME NEW r \in Request, CommitToggle(r)
      PROVE  /\ pc[r] = "commit" /\ pc'[r] = "idle"
             /\ session[r].device = d
             /\ session[r].op \in {"enable", "disable"}
  BY <1>1, <1>3 DEF CommitToggle, Committed, TypeOK
<1>4. ASSUME NEW r \in Request, CommitWrite(r) \/ CommitDelete(r) PROVE FALSE
  BY <1>4 DEF CommitWrite, CommitDelete
<1>5. QED
  BY <1>2, <1>3, <1>4, Steps

\* No registration, new preferences or deletion changes whether a device is
\* enabled, however old what it has read.
THEOREM OnlyTogglesEnable == Spec => EnabledOnlyToggled
<1>1. TypeOK /\ [Next]_vars =>
        [\A d \in DOMAIN devices \cap DOMAIN devices' :
            devices'[d].enabled # devices[d].enabled =>
                \E r \in Request :
                    /\ pc[r] = "commit" /\ pc'[r] = "idle"
                    /\ session[r].device = d
                    /\ session[r].op \in {"enable", "disable"}]_vars
  BY EnabledStep
<1>2. QED
  BY <1>1, TypeCorrect, PTL DEF Spec, EnabledOnlyToggled

\* A line of the device at hand after the write, column by column.
LEMMA UnlistedStep ==
    ASSUME TypeOK, NEW r \in Request, CommitWrite(r), session[r].op = "patch",
           NEW d \in Device, NEW l \in Line, NEW f \in Field,
           ~ (d = session[r].device /\ Mentions(session[r].body, l, f))
    PROVE  Setting(preferences', d, l, f) = Setting(preferences, d, l, f)
<1> DEFINE s == session[r]
<1>1. preferences' = [e \in DOMAIN preferences \cup {s.device} |->
                        IF e = s.device THEN Written(s) ELSE preferences[e]]
  BY DEF CommitWrite
<1>2. CASE d # s.device
  BY <1>1, <1>2 DEF Setting
<1>3. CASE d = s.device
  <2>1. ~ Mentions(s.body, l, f)
    BY <1>3
  <2>2. l \notin Removed(s)
    BY <2>1 DEF Removed, Named, Mentions, CommitWrite
  <2>3. l \notin Inserted(s)
    BY <2>1 DEF Inserted, Named, Mentions, CommitWrite, Complete
  <2>4. ~ (l \in Updated(s) /\ f \in Changed(s, l))
    BY <2>1 DEF Updated, Named, Changed, Mentions
  <2>5. preferences'[d] = Written(s) /\ d \in DOMAIN preferences'
    BY <1>1, <1>3
  <2>6. DOMAIN Written(s) = (LinesNow(s) \ Removed(s)) \cup Inserted(s)
    BY DEF Written
  <2>7. CASE l \in LinesNow(s)
    <3>1. d \in DOMAIN preferences /\ l \in DOMAIN preferences[d]
      BY <1>3, <2>7 DEF LinesNow, RowOf
    <3>2. l \in DOMAIN preferences'[d]
      BY <2>2, <2>5, <2>6, <2>7
    <3>3. preferences'[d][l][f] = preferences[d][l][f]
      BY <1>3, <2>2, <2>3, <2>4, <2>5, <2>7 DEF Written, LineWritten
    <3>4. QED
      BY <2>5, <3>1, <3>2, <3>3 DEF Setting
  <2>8. CASE l \notin LinesNow(s)
    <3>1. l \notin DOMAIN preferences'[d]
      BY <2>3, <2>5, <2>6, <2>8
    <3>2. d \in DOMAIN preferences => l \notin DOMAIN preferences[d]
      BY <1>3, <2>8 DEF LinesNow, RowOf
    <3>3. QED
      BY <3>1, <3>2 DEF Setting
  <2>9. QED
    BY <2>7, <2>8
<1>4. QED
  BY <1>2, <1>3

\* A PATCH leaves what it does not list as it is when it commits.
THEOREM PatchesKeepTheRest == Spec => UnlistedFieldsKept
<1>1. TypeOK /\ [Next]_vars =>
        [\A r \in Request :
            CommitWrite(r) /\ session[r].op = "patch" =>
                \A d \in Device, l \in Line, f \in Field :
                    \/ d = session[r].device /\ Mentions(session[r].body, l, f)
                    \/ Setting(preferences', d, l, f) = Setting(preferences, d, l, f)]_vars
  BY UnlistedStep
<1>2. QED
  BY <1>1, TypeCorrect, PTL DEF Spec, UnlistedFieldsKept

-----------------------------------------------------------------------------
\* What a session that is not overtaken has read of its device's lines is what
\* they are.
LEMMA LinesAreRead ==
    ASSUME IInv, NEW r \in Request, CommitWrite(r), ~ overtaken[r]
    PROVE  LET s     == session[r]
               table == LinesOf(preferences, s.device)
           IN  /\ table \in LineTable
               /\ ReadLines(s) = DOMAIN table
               /\ LinesNow(s) = DOMAIN table
               /\ \A l \in DOMAIN table : \A f \in Field :
                    /\ WasField(s, l, f) = table[l][f]
                    /\ preferences[s.device][l][f] = table[l][f]
<1> DEFINE s     == session[r]
           table == LinesOf(preferences, s.device)
<1>1. s.lines = RowOf(preferences, s.device)
  BY DEF CommitWrite, IInv, ReadsFresh, ReadNow
<1>2. preferences \in [DOMAIN preferences -> LineTable]
  BY PreferencesForm DEF IInv, TypeOK
<1>3. CASE s.device \in DOMAIN preferences
  <2>1. s.lines = {table} /\ table = preferences[s.device]
    BY <1>1, <1>3 DEF RowOf, LinesOf
  <2>2. table \in LineTable
    BY <1>2, <1>3, <2>1
  <2>3. ReadLines(s) = DOMAIN table /\ LinesNow(s) = DOMAIN table
    BY <1>1, <2>1 DEF ReadLines, LinesNow
  <2>4. \A l, f : WasField(s, l, f) = table[l][f]
    <3>1. ASSUME NEW l, NEW f PROVE WasField(s, l, f) = table[l][f]
      <4>1. {t[l][f] : t \in s.lines} = {table[l][f]}
        BY <2>1
      <4>2. WasField(s, l, f) = CHOOSE v \in {table[l][f]} : TRUE
        BY <4>1 DEF WasField
      <4>3. QED
        BY <4>2
    <3>2. QED
      BY <3>1
  <2>5. QED
    BY <2>1, <2>2, <2>3, <2>4
<1>4. CASE s.device \notin DOMAIN preferences
  <2>1. s.lines = {} /\ table = Empty
    BY <1>1, <1>4 DEF RowOf, LinesOf
  <2>2. DOMAIN table = {} /\ table \in LineTable
    BY <2>1, LinesForm DEF Empty
  <2>3. ReadLines(s) = {} /\ LinesNow(s) = {}
    BY <1>1, <2>1 DEF ReadLines, LinesNow
  <2>4. QED
    BY <2>2, <2>3
<1>5. QED
  BY <1>3, <1>4

\* Then every line named is as sent, in the columns sent.
LEMMA LineIsExact ==
    ASSUME IInv, NEW r \in Request, CommitWrite(r), ~ overtaken[r],
           NEW l \in Named(session[r])
    PROVE  LET s     == session[r]
               table == LinesOf(preferences, s.device)
           IN  LineWritten(s, l) =
                    [f \in Field |-> IF f \in DOMAIN s.body[l]
                                     THEN s.body[l][f] ELSE table[l][f]]
<1> DEFINE s     == session[r]
           table == LinesOf(preferences, s.device)
<1>1. /\ ReadLines(s) = DOMAIN table
      /\ \A k \in DOMAIN table : \A f \in Field :
            /\ WasField(s, k, f) = table[k][f]
            /\ preferences[s.device][k][f] = table[k][f]
  BY LinesAreRead
<1>2. /\ DOMAIN s.body[l] \subseteq Field
      /\ s.body[l] = [f \in DOMAIN s.body[l] |-> s.body[l][f]]
  <2>1. s \in Sessions /\ s.op \in {"put", "patch"}
    BY DEF CommitWrite, IInv, TypeOK, Sessions
  <2>2. s.body \in PutBody \cup PatchBody
    BY <2>1, SessionFields
  <2>3. l \in DOMAIN s.body /\ s.body[l] # Null
    BY DEF Named
  <2>4. CASE s.body \in PutBody
    BY <2>3, <2>4, BodyAssumption, LinesForm DEF Preference
  <2>5. CASE s.body \in PatchBody
    BY <2>3, <2>5, PatchForm
  <2>6. QED
    BY <2>2, <2>4, <2>5
<1> HIDE DEF table
<1>3. CASE l \in Inserted(s)
  <2>1. DOMAIN s.body[l] = Field
    BY <1>3 DEF CommitWrite, Complete
  <2>2. LineWritten(s, l) = s.body[l]
    BY <1>3 DEF LineWritten
  <2>3. QED
    BY <1>2, <2>1, <2>2
<1>4. CASE l \notin Inserted(s)
  <2>1. l \in DOMAIN table
    BY <1>1, <1>4 DEF Inserted
  <2> DEFINE Now(f)  == IF l \in Updated(s) /\ f \in Changed(s, l)
                        THEN s.body[l][f] ELSE preferences[s.device][l][f]
             Sent(f) == IF f \in DOMAIN s.body[l] THEN s.body[l][f] ELSE table[l][f]
  <2>2. LineWritten(s, l) = [f \in Field |-> Now(f)]
    BY <1>4 DEF LineWritten
  <2>3. \A f \in Field : Now(f) = Sent(f)
    BY <1>1, <2>1 DEF Updated, Changed
  <2> HIDE DEF Now, Sent
  <2>4. LineWritten(s, l) = [f \in Field |-> Sent(f)]
    BY <2>2, <2>3
  <2>5. QED
    BY <2>4 DEF Sent, table
<1>5. QED
  BY <1>3, <1>4 DEF table

LEMMA ExactStep ==
    ASSUME IInv, NEW r \in Request, CommitWrite(r), ~ overtaken[r], NEW d \in Device
    PROVE  LET s == session[r]
           IN  LinesOf(preferences', d) =
                    IF d # s.device THEN LinesOf(preferences, d)
                    ELSE IF s.op = "put" THEN s.body
                    ELSE Merged(LinesOf(preferences, d), s.body)
<1> DEFINE s     == session[r]
           table == LinesOf(preferences, s.device)
<1>1. preferences' = [e \in DOMAIN preferences \cup {s.device} |->
                        IF e = s.device THEN Written(s) ELSE preferences[e]]
  BY DEF CommitWrite
<1>2. CASE d # s.device
  BY <1>1, <1>2 DEF LinesOf
<1>3. /\ table \in LineTable
      /\ ReadLines(s) = DOMAIN table
      /\ LinesNow(s) = DOMAIN table
      /\ \A l \in DOMAIN table : \A f \in Field :
            preferences[s.device][l][f] = table[l][f]
  BY LinesAreRead
<1>4. \A l \in Named(s) : LineWritten(s, l) =
            [f \in Field |-> IF f \in DOMAIN s.body[l]
                             THEN s.body[l][f] ELSE table[l][f]]
  BY LineIsExact
<1>5. s.op \in {"put", "patch"} /\ (s.op = "put" => s.body \in PutBody)
  <2>1. s \in Sessions /\ s.op \in {"put", "patch"}
    BY DEF CommitWrite, IInv, TypeOK, Sessions
  <2>2. QED
    BY <2>1, SessionFields
<1> HIDE DEF table
<1>6. CASE d = s.device /\ s.op = "put"
  <2>1. s.body \in LineTable
    BY <1>5, <1>6, BodyAssumption
  <2>2. /\ s.body = [l \in DOMAIN s.body |-> s.body[l]]
        /\ \A l \in DOMAIN s.body : s.body[l] \in [Field -> Value]
    BY <2>1, LinesForm DEF Preference
  <2>3. Named(s) = DOMAIN s.body
    BY <2>2, NullAssumption DEF Named
  <2>4. (LinesNow(s) \ Removed(s)) \cup Inserted(s) = DOMAIN s.body
    BY <1>3, <1>6, <2>3 DEF Removed, Inserted
  <2>5. ASSUME NEW l \in DOMAIN s.body
        PROVE  LineWritten(s, l) = s.body[l]
    BY <1>4, <2>2, <2>3
  <2>6. Written(s) = s.body
    BY <2>2, <2>4, <2>5 DEF Written
  <2>7. QED
    BY <1>1, <1>6, <2>6 DEF LinesOf
<1>7. CASE d = s.device /\ s.op = "patch"
  <2>1. (LinesNow(s) \ Removed(s)) \cup Inserted(s)
            = (DOMAIN table \ DOMAIN s.body) \cup Named(s)
    BY <1>3, <1>7 DEF Removed, Inserted, Named
  <2>2. ASSUME NEW l \in (DOMAIN table \ DOMAIN s.body) \cup Named(s)
        PROVE  LineWritten(s, l) =
                    [f \in Field |-> IF l \in Named(s) /\ f \in DOMAIN s.body[l]
                                     THEN s.body[l][f] ELSE table[l][f]]
    <3>1. CASE l \in Named(s)
      BY <1>4, <3>1
    <3>2. CASE l \notin Named(s)
      <4>1. l \in DOMAIN table /\ l \notin Inserted(s) /\ l \notin Updated(s)
        BY <3>2 DEF Inserted, Updated
      <4>2. LineWritten(s, l) = [f \in Field |-> preferences[s.device][l][f]]
        BY <4>1 DEF LineWritten
      <4>3. QED
        BY <1>3, <3>2, <4>1, <4>2
    <3>3. QED
      BY <3>1, <3>2
  <2>3. Written(s) = Merged(table, s.body)
    BY <2>1, <2>2 DEF Written, Merged, Named
  <2>4. QED
    BY <1>1, <1>7, <2>3 DEF LinesOf, table
<1>8. QED
  BY <1>2, <1>5, <1>6, <1>7

\* A PUT that none has overtaken replaces the lines of its device, and a PATCH
\* merges with them, whatever had to be removed, inserted or updated for it.
THEOREM WritesAreExact == Spec => UndisturbedWritesAreExact
<1>1. IInv /\ [Next]_vars =>
        [\A r \in Request :
            CommitWrite(r) /\ ~overtaken[r] =>
                LET s == session[r]
                IN  \A d \in Device :
                        LinesOf(preferences', d) =
                            IF d # s.device THEN LinesOf(preferences, d)
                            ELSE IF s.op = "put" THEN s.body
                            ELSE Merged(LinesOf(preferences, d), s.body)]_vars
  BY ExactStep
<1>2. QED
  BY <1>1, Invariance, PTL DEF Spec, UndisturbedWritesAreExact

-----------------------------------------------------------------------------
\* What a column holds before and after a write, line by line: a line that is
\* inserted, one that is removed or gone, and one that stays.
LEMMA SettingsWritten ==
    ASSUME TypeOK, NEW r \in Request, CommitWrite(r), NEW l \in Line, NEW f \in Field
    PROVE  LET s   == session[r]
               now == Setting(preferences, s.device, l, f)
               new == Setting(preferences', s.device, l, f)
           IN  /\ l \in LinesNow(s) => now = {preferences[s.device][l][f]}
               /\ l \notin LinesNow(s) => now = {}
               /\ l \in Inserted(s) => new = {s.body[l][f]}
               /\ l \notin Inserted(s) /\ l \in LinesNow(s) \ Removed(s) =>
                    new = {IF l \in Updated(s) /\ f \in Changed(s, l)
                           THEN s.body[l][f] ELSE preferences[s.device][l][f]}
               /\ l \notin Inserted(s) /\ l \notin LinesNow(s) \ Removed(s) =>
                    new = {}
<1> DEFINE s == session[r]
<1>1. /\ preferences'[s.device] = Written(s)
      /\ s.device \in DOMAIN preferences'
  BY DEF CommitWrite
<1>2. Setting(preferences', s.device, l, f) =
            {Written(s)[l][f] : k \in DOMAIN Written(s) \cap {l}}
  BY <1>1 DEF Setting
<1>3. DOMAIN Written(s) = (LinesNow(s) \ Removed(s)) \cup Inserted(s)
  BY DEF Written
<1>4. l \in DOMAIN Written(s) => Written(s)[l] = LineWritten(s, l)
  BY <1>3 DEF Written
<1>5. l \in LinesNow(s) <=>
            s.device \in DOMAIN preferences /\ l \in DOMAIN preferences[s.device]
  BY DEF LinesNow, RowOf
<1>6. /\ l \in LinesNow(s) =>
            Setting(preferences, s.device, l, f) = {preferences[s.device][l][f]}
      /\ l \notin LinesNow(s) => Setting(preferences, s.device, l, f) = {}
  BY <1>5 DEF Setting
<1>7. CASE l \in Inserted(s)
  BY <1>2, <1>3, <1>4, <1>6, <1>7 DEF LineWritten
<1>8. CASE l \notin Inserted(s)
  BY <1>2, <1>3, <1>4, <1>6, <1>8 DEF LineWritten
<1>9. QED
  BY <1>7, <1>8

LEMMA MixStep ==
    ASSUME TypeOK, NEW r \in Request, CommitWrite(r), NEW l \in Line, NEW f \in Field
    PROVE  LET s == session[r]
               now == Setting(preferences, s.device, l, f)
               new == Setting(preferences', s.device, l, f)
               newer == now # Was(s, l, f)
           IN  \/ new = Asked(s, l, f) /\ (newer => About(s, l, f))
               \/ new = now /\ newer
<1> DEFINE s     == session[r]
           now   == Setting(preferences, s.device, l, f)
           new   == Setting(preferences', s.device, l, f)
           field == preferences[s.device][l][f]
           Mixed == \/ /\ new = Asked(s, l, f)
                       /\ now # Was(s, l, f) => About(s, l, f)
                    \/ new = now /\ now # Was(s, l, f)
<1> SUFFICES Mixed
  OBVIOUS
<1>1. /\ l \in LinesNow(s) => now = {field}
      /\ l \notin LinesNow(s) => now = {}
      /\ l \in Inserted(s) => new = {s.body[l][f]}
      /\ l \notin Inserted(s) /\ l \in LinesNow(s) \ Removed(s) =>
            new = {IF l \in Updated(s) /\ f \in Changed(s, l)
                   THEN s.body[l][f] ELSE field}
      /\ l \notin Inserted(s) /\ l \notin LinesNow(s) \ Removed(s) => new = {}
  BY SettingsWritten
<1>2. /\ l \in ReadLines(s) => Was(s, l, f) = {WasField(s, l, f)}
      /\ l \notin ReadLines(s) => Was(s, l, f) = {}
  BY DEF Was
<1>3. /\ l \in Named(s) => {s.body[l][f] : k \in Named(s) \cap {l}} = {s.body[l][f]}
      /\ l \notin Named(s) => {s.body[l][f] : k \in Named(s) \cap {l}} = {}
  OBVIOUS
<1>4. /\ s.op \in {"put", "patch"}
      /\ Inserted(s) \cap LinesNow(s) = {}
      /\ \A k \in Inserted(s) : DOMAIN s.body[k] = Field
      /\ s.op = "put" => /\ Named(s) = DOMAIN s.body
                         /\ \A k \in Named(s) : DOMAIN s.body[k] = Field
  <2>1. s \in Sessions /\ s.op \in {"put", "patch"}
    BY DEF CommitWrite, TypeOK, Sessions
  <2>2. s.op = "put" => s.body \in LineTable
    BY <2>1, SessionFields, BodyAssumption
  <2>3. s.op = "put" => /\ Named(s) = DOMAIN s.body
                        /\ \A k \in Named(s) : DOMAIN s.body[k] = Field
    BY <2>2, LinesForm, NullAssumption DEF Named, Preference
  <2>4. QED
    BY <2>1, <2>3 DEF CommitWrite, WriteSucceeds, Complete
<1> HIDE DEF s, now, new, field
<1>5. CASE l \in Inserted(s)
  <2>1. About(s, l, f) /\ l \in Named(s)
    BY <1>4, <1>5 DEF Inserted, Named, About, Mentions
  <2>2. QED
    BY <1>1, <1>3, <1>5, <2>1 DEF Asked
<1>6. CASE l \in Named(s) \ Inserted(s)
  <2>1. l \in ReadLines(s) /\ l \notin Removed(s) /\ Was(s, l, f) = {WasField(s, l, f)}
    BY <1>2, <1>6 DEF Inserted, Removed, Named
  <2>2. CASE l \notin LinesNow(s)
    BY <1>1, <1>6, <2>1, <2>2
  <2>3. CASE l \in LinesNow(s) /\ f \in Changed(s, l)
    <3>1. l \in Updated(s) /\ About(s, l, f)
      BY <1>6, <2>1, <2>3 DEF Updated, Changed, Named, About, Mentions
    <3>2. QED
      BY <1>1, <1>3, <1>6, <2>1, <2>3, <3>1 DEF Asked
  <2>4. CASE l \in LinesNow(s) /\ f \notin Changed(s, l)
    <3>1. new = now
      BY <1>1, <1>6, <2>1, <2>4
    <3>2. About(s, l, f) => Asked(s, l, f) = Was(s, l, f)
      BY <1>3, <1>4, <1>6, <2>1, <2>4 DEF About, Mentions, Named, Asked, Changed
    <3>3. Asked(s, l, f) = Was(s, l, f)
      BY <3>2 DEF Asked
    <3>4. QED
      BY <3>1, <3>3
  <2>5. QED
    BY <2>2, <2>3, <2>4
<1>7. CASE l \notin Named(s) /\ About(s, l, f)
  <2>1. Asked(s, l, f) = {} /\ l \notin Inserted(s)
    BY <1>3, <1>7 DEF Asked, Inserted
  <2>2. l \in ReadLines(s) => l \in Removed(s)
    BY <1>4, <1>7 DEF Removed, About, Mentions, Named
  <2>3. CASE l \in ReadLines(s)
    BY <1>1, <1>7, <2>1, <2>2, <2>3
  <2>4. CASE l \notin ReadLines(s)
    BY <1>1, <1>2, <1>7, <2>1, <2>4 DEF Updated, Removed
  <2>5. QED
    BY <2>3, <2>4
<1>8. CASE l \notin Named(s) /\ ~ About(s, l, f)
  <2>1. /\ Asked(s, l, f) = Was(s, l, f)
        /\ l \notin Inserted(s) /\ l \notin Updated(s) /\ l \notin Removed(s)
    BY <1>4, <1>8 DEF Asked, About, Mentions, Inserted, Updated, Removed, Named
  <2>2. new = now
    BY <1>1, <2>1
  <2>3. QED
    BY <2>1, <2>2
<1>9. QED
  BY <1>5, <1>6, <1>7, <1>8

\* Writes of any number of requests that overlap leave each column as the last
\* of them asks, or as one of the others left it.
THEOREM WritesMixByColumn == Spec => OverlappingWritesMixByColumn
<1>1. TypeOK /\ [Next]_vars =>
        [\A r \in Request :
            CommitWrite(r) =>
                LET s == session[r]
                IN  \A l \in Line, f \in Field :
                        LET now == Setting(preferences, s.device, l, f)
                            new == Setting(preferences', s.device, l, f)
                            newer == now # Was(s, l, f)
                        IN  \/ new = Asked(s, l, f) /\ (newer => About(s, l, f))
                            \/ new = now /\ newer]_vars
  BY MixStep
<1>2. QED
  BY <1>1, TypeCorrect, PTL DEF Spec, OverlappingWritesMixByColumn

-----------------------------------------------------------------------------
\* The requests implement the atomic operations of SnapshotWorker's API.
LEMMA TableFacts ==
    ASSUME TypeOK
    PROVE  /\ DOMAIN DeviceTable = DOMAIN devices
           /\ \A d \in DOMAIN devices :
                DeviceTable[d] =
                    [enabled |-> devices[d].enabled,
                     lines |-> IF d \in DOMAIN preferences THEN preferences[d] ELSE Empty]
           /\ DOMAIN preferences \subseteq DOMAIN devices
           /\ DOMAIN devices \subseteq Device
BY DeviceForm, PreferencesForm DEF DeviceTable, TypeOK

LEMMA TableUnchanged ==
    ASSUME UNCHANGED <<devices, preferences>>
    PROVE  UNCHANGED S!vars
BY DEF DeviceTable, S!vars, S!tables, S!poll

LEMMA RegisterRefines ==
    ASSUME IInv, TypeOK', NEW r \in Request, CommitRegister(r)
    PROVE  S!Api \/ UNCHANGED S!vars
<1> DEFINE s     == session[r]
           other == s.owner \cap (DOMAIN devices \ {s.device})
<1>1. s \in Registering /\ s.device \in Device
  BY SessionFields DEF IInv, CommitRegister, TypeOK, Sessions, Registering, SessionOf
<1>2. RegisterSucceeds(s)
  BY DEF CommitRegister
<1>3. DOMAIN devices \subseteq Device /\ devices \in [DOMAIN devices -> DeviceRow]
  BY DeviceForm DEF IInv, TypeOK
<1>4. DOMAIN DeviceTable = DOMAIN devices /\ DOMAIN DeviceTable' = DOMAIN devices'
  BY TableFacts DEF IInv, DeviceTable
<1>5. DOMAIN devices' = (DOMAIN devices \ other) \cup {s.device}
  BY DEF CommitRegister
<1>6. ASSUME NEW d \in DOMAIN devices'
      PROVE  DeviceTable'[d] = IF d \in DOMAIN devices THEN DeviceTable[d]
                               ELSE [enabled |-> TRUE, lines |-> Empty]
  <2>1. DeviceTable'[d] =
            [enabled |-> devices'[d].enabled,
             lines |-> IF d \in DOMAIN preferences' THEN preferences'[d] ELSE Empty]
    BY <1>6 DEF DeviceTable
  <2>2. d \in DOMAIN preferences' <=>
            d \in DOMAIN preferences /\ d \in DOMAIN devices /\ d \notin s.owner
    BY DEF CommitRegister, PreferencesLeft, KeptPreferences
  <2>3. d \in DOMAIN preferences' => preferences'[d] = preferences[d]
    BY DEF CommitRegister, PreferencesLeft, KeptPreferences
  <2>4. devices'[d] = IF d = s.device THEN Registered(s) ELSE devices[d]
    BY <1>6 DEF CommitRegister
  <2>5. s.device \notin s.owner
    BY DEF IInv, OwnerElsewhere
  <2>6. devices'[d].enabled = IF d \in DOMAIN devices THEN devices[d].enabled ELSE TRUE
    <3>1. CASE d = s.device
      <4>1. CASE s.row = {}
        BY <1>2, <2>4, <3>1, <4>1 DEF Registered, RegisterSucceeds
      <4>2. CASE s.row # {}
        <5>1. s.device \in DOMAIN devices /\ devices[s.device] \in DeviceRow
          BY <1>2, <1>3, <4>2 DEF RegisterSucceeds
        <5>2. Registered(s).enabled = devices[s.device].enabled
          BY <4>2, <5>1 DEF Registered, DeviceRow
        <5>3. QED
          BY <2>4, <3>1, <5>1, <5>2
      <4>3. QED
        BY <4>1, <4>2
    <3>2. CASE d # s.device
      BY <1>5, <1>6, <2>4, <3>2
    <3>3. QED
      BY <3>1, <3>2
  <2>7. d \in DOMAIN devices => d \notin s.owner
    BY <1>5, <1>6, <2>5
  <2>8. DOMAIN preferences \subseteq DOMAIN devices
    BY TableFacts DEF IInv
  <2>9. QED
    BY <2>1, <2>2, <2>3, <2>6, <2>7, <2>8 DEF DeviceTable
<1>7. DeviceTable' = [d \in (DOMAIN DeviceTable \ other) \cup {s.device} |->
                        IF d \in DOMAIN DeviceTable THEN DeviceTable[d]
                        ELSE [enabled |-> TRUE, lines |-> Empty]]
  BY <1>4, <1>5, <1>6 DEF DeviceTable
<1>8. CASE s.device \notin DOMAIN devices \/ other # {}
  <2>1. \A d, e \in other : d = e
    BY DEF IInv, OneOwner
  <2>2. S!RegisterDevice(s.device, other)
    BY <1>4, <1>7, <1>8, <2>1 DEF S!RegisterDevice, S!Remove, S!worker, S!poll, S!Empty, Empty
  <2>3. other \in SUBSET Device
    BY <1>3
  <2>4. QED
    BY <1>1, <2>2, <2>3 DEF S!Api
<1>9. CASE s.device \in DOMAIN devices /\ other = {}
  <2>1. DeviceTable' = DeviceTable
    BY <1>4, <1>7, <1>9 DEF DeviceTable
  <2>2. QED
    BY <2>1 DEF S!vars, S!tables, S!poll
<1>10. QED
  BY <1>8, <1>9

LEMMA WriteRefines ==
    ASSUME IInv, NEW r \in Request, CommitWrite(r)
    PROVE  S!Api
<1> DEFINE s == session[r]
<1>1. /\ s.device \in Device /\ s.device \in DOMAIN devices
      /\ Written(s) \in LineTable
  BY WrittenTypes DEF IInv
<1>2. /\ preferences' = [d \in DOMAIN preferences \cup {s.device} |->
                            IF d = s.device THEN Written(s) ELSE preferences[d]]
      /\ devices' = devices
  BY DEF CommitWrite
<1>3. DeviceTable' = [DeviceTable EXCEPT ![s.device].lines = Written(s)]
  BY <1>1, <1>2 DEF DeviceTable
<1>4. s.device \in DOMAIN DeviceTable
  BY <1>1 DEF DeviceTable
<1>5. S!WritePreferences(s.device, Written(s))
  BY <1>3, <1>4 DEF S!WritePreferences, S!worker, S!poll
<1>6. QED
  BY <1>1, <1>5 DEF S!Api

LEMMA ToggleRefines ==
    ASSUME IInv, NEW r \in Request, CommitToggle(r)
    PROVE  S!Api
<1> DEFINE s == session[r]
<1>1. devices \in [DOMAIN devices -> DeviceRow] /\ DOMAIN devices \subseteq Device
  BY DeviceForm DEF IInv, TypeOK
<1>2. s.device \in DOMAIN devices /\ preferences' = preferences
  BY DEF CommitToggle
<1>3. PICK b \in BOOLEAN : devices' = [devices EXCEPT ![s.device].enabled = b]
  <2>1. devices[s.device].enabled \in BOOLEAN
    BY <1>1, <1>2 DEF DeviceRow
  <2>2. QED
    BY <2>1 DEF CommitToggle
<1>4. DeviceTable' = [DeviceTable EXCEPT ![s.device].enabled = b]
  <2>1. \A d \in DOMAIN devices :
            devices'[d].enabled = IF d = s.device THEN b ELSE devices[d].enabled
    BY <1>1, <1>2, <1>3 DEF DeviceRow
  <2>2. DOMAIN devices' = DOMAIN devices
    BY <1>3
  <2>3. QED
    BY <1>2, <2>1, <2>2 DEF DeviceTable
<1>5. s.device \in DOMAIN DeviceTable
  BY <1>2 DEF DeviceTable
<1>6. S!SetEnabled(s.device, b)
  BY <1>4, <1>5 DEF S!SetEnabled, S!worker, S!poll
<1>7. QED
  BY <1>1, <1>2, <1>6 DEF S!Api

LEMMA DeleteRefines ==
    ASSUME IInv, NEW r \in Request, CommitDelete(r)
    PROVE  S!Api \/ UNCHANGED S!vars
<1> DEFINE s == session[r]
<1>1. DOMAIN preferences \subseteq DOMAIN devices /\ DOMAIN devices \subseteq Device
  BY TableFacts DEF IInv
<1>2. /\ devices' = [d \in DOMAIN devices \ {s.device} |-> devices[d]]
      /\ preferences' = [d \in DOMAIN preferences \cap (DOMAIN devices \ {s.device})
                            |-> preferences[d]]
  BY DEF CommitDelete, KeptPreferences
<1>3. DeviceTable' = [d \in DOMAIN DeviceTable \ {s.device} |-> DeviceTable[d]]
  BY <1>1, <1>2 DEF DeviceTable
<1>4. CASE s.device \in DOMAIN devices
  <2>1. S!DeleteDevice(s.device)
    BY <1>3, <1>4 DEF S!DeleteDevice, S!Remove, S!worker, S!poll, DeviceTable
  <2>2. QED
    BY <1>1, <1>4, <2>1 DEF S!Api
<1>5. CASE s.device \notin DOMAIN devices
  <2>1. DeviceTable' = DeviceTable
    BY <1>3, <1>5 DEF DeviceTable
  <2>2. QED
    BY <2>1 DEF S!vars, S!tables, S!poll
<1>6. QED
  BY <1>4, <1>5

\* Every step of requests that run side by side is, on the tables, one of the
\* atomic operations that SnapshotWorker lets the API take at any time.
THEOREM RequestsAreAtomic == Spec => RegistryIsAtomic
<1>1. Init => S!Init
  BY DEF Init, DeviceTable, Empty, S!Init, S!Empty
<1>2. IInv /\ IInv' /\ [Next]_vars => [S!Api]_(S!vars)
  BY Steps, TableUnchanged, RegisterRefines, WriteRefines, ToggleRefines, DeleteRefines
  DEF IInv
<1>3. QED
  BY <1>1, <1>2, Invariance, PTL DEF Spec, RegistryIsAtomic

=============================================================================
