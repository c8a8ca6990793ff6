------------------------- MODULE SecretMirrorProofs -------------------------
(***************************************************************************)
(* SecretMirror for any sets of clientIds and calls: the mirror's entries  *)
(* are paired, the built-in client is untouched, and a stale entry is      *)
(* always the trace of a failure or of overlapping calls.                  *)
(***************************************************************************)
EXTENDS SecretMirror, TLAPS

\* What a call at each stage is and holds.
CallsInStage ==
  \A h \in Calls :
     /\ at[h] \in {"post", "fetch", "secret"} => h \in Creators
     /\ at[h] = "look" => h \in Revealers \cup Regenerators
     /\ at[h] \in {"recheck", "op"} => h \in PerUuid
     /\ at[h] = "mirror" => h \in Creators \cup Revealers \cup Regenerators
     /\ at[h] = "unmirror" => h \in Deleters
     /\ at[h] \in {"fetch", "secret", "op", "mirror", "unmirror"} => uuid[h] \in Creators
     /\ Active(h) => name[h] \in Names
     /\ secret[h] # None => at[h] = "mirror"

\* A call knows the client it is about, and a client keeps its clientId.
CallsKnowTheirClient ==
  /\ \A h \in PerUuid : at[h] = "idle" \/ (uuid[h] \in Known /\ name[h] = NameOf(uuid[h]))
  /\ \A h \in Calls : at[h] = "idle" => uuid[h] = None
  /\ \A c \in Creators :
        /\ uuid[c] \in {None, c}
        /\ at[c] = "post" => uuid[c] = None
        /\ at[c] \in {"fetch", "secret", "mirror"} => uuid[c] = c
        /\ uuid[c] = c => name[c] \in Names \ {BuiltinName}

\* Keycloak's clients: no two of one name, each with a secret issued to it.
KeycloakIsSound ==
  /\ live \subseteq Known /\ Builtin \in live /\ Builtin \in enabled
  /\ \A u, v \in live : NameOf(u) = NameOf(v) => u = v
  /\ secretOf[Builtin] = Builtin
  /\ \A c \in Creators : uuid[c] = c => secretOf[c] \in Issuers /\ IssuedTo(secretOf[c]) = c

ControlInv == TypeOK /\ CallsInStage /\ CallsKnowTheirClient /\ KeycloakIsSound

\* At the start there is the built-in client and no call.
LEMMA ControlInit == Init => ControlInv
<1> SUFFICES ASSUME Init PROVE ControlInv
  OBVIOUS
<1> USE SecretMirrorAssumption DEF Init, Uuids, Secrets, Issuers, Calls, PerUuid, Stages
<1>1. TypeOK
  BY DEF TypeOK
<1>2. CallsInStage
  BY DEF CallsInStage, Active
<1>3. CallsKnowTheirClient
  BY DEF CallsKnowTheirClient
<1>4. KeycloakIsSound
  BY DEF KeycloakIsSound, Known, NameOf
<1> QED
  BY <1>1, <1>2, <1>3, <1>4 DEF ControlInv

\* A function updated within its type keeps it.
LEMMA UpdateType == ASSUME NEW S, NEW T, NEW f \in [S -> T], NEW x, NEW v \in T
                    PROVE  [f EXCEPT ![x] = v] \in [S -> T]
OBVIOUS


\* A call that goes on keeps the types.
LEMMA MoveTypes ==
  ASSUME TypeOK, NEW h \in Calls, NEW stage \in Stages, Move(h, stage)
  PROVE  /\ at' \in [Calls -> Stages \cup {"idle", "answered"}]
         /\ UNCHANGED <<name, alone, settled>>
BY DEF Move, TypeOK

\* A call that is answered keeps the types.
LEMMA AnswerTypes ==
  ASSUME TypeOK, NEW h \in Calls, Answer(h)
  PROVE  /\ at' \in [Calls -> Stages \cup {"idle", "answered"}]
         /\ alone' \in [Calls -> BOOLEAN]
         /\ secret' \in [Calls -> Secrets \cup {None}]
         /\ name' = name
<1>1. at' = [at EXCEPT ![h] = "answered"] /\ name' = name
  BY DEF Answer
<1>2. alone' \in [Calls -> BOOLEAN]
  BY UpdateType DEF Answer, TypeOK
<1>3. secret' \in [Calls -> Secrets \cup {None}]
  BY UpdateType DEF Answer, TypeOK
<1> QED
  BY <1>1, <1>2, <1>3 DEF TypeOK

\* So does one that is answered after a change.
LEMMA FinishTypes ==
  ASSUME TypeOK, NEW h \in Calls, NEW good \in BOOLEAN, Finish(h, good)
  PROVE  Answer(h) /\ settled' \in [Names -> BOOLEAN]
<1>1. (good /\ alone[h]) \in BOOLEAN
  OBVIOUS
<1> DEFINE v == good /\ alone[h]
<1>2. settled' = [settled EXCEPT ![name[h]] = v] /\ Answer(h)
  BY DEF Finish
<1> HIDE DEF v
<1> QED
  BY <1>1, <1>2, UpdateType DEF TypeOK, v

\* So does one that begins.
LEMMA BeginTypes ==
  ASSUME TypeOK, NEW h \in Calls, NEW n \in Names \cup {NoName}, NEW stage \in Stages, Begin(h, n, stage)
  PROVE  /\ at' \in [Calls -> Stages \cup {"idle", "answered"}]
         /\ name' \in [Calls -> Names \cup {NoName}]
         /\ alone' \in [Calls -> BOOLEAN]
         /\ UNCHANGED <<keycloak, mirror, secret, settled>>
<1> DEFINE others == {k \in Calls : Active(k) /\ name[k] = n}
           bump(k) == IF k \in others \/ (k = h /\ others # {}) THEN FALSE ELSE alone[k]
<1>1. \A k \in Calls : bump(k) \in BOOLEAN
  BY DEF TypeOK
<1>2. alone' = [k \in Calls |-> bump(k)]
  BY DEF Begin
<1>3. alone' \in [Calls -> BOOLEAN]
  <2> HIDE DEF bump
  <2> QED BY <1>1, <1>2
<1>4. at' = [at EXCEPT ![h] = stage] /\ name' = [name EXCEPT ![h] = n] /\ UNCHANGED <<keycloak, mirror, secret, settled>>
  BY DEF Begin
<1> QED
  BY <1>3, <1>4 DEF TypeOK

\* No step breaks the control invariant: a call knows its client from its
\* beginning on, and Keycloak refuses a clientId that is taken.
LEMMA ControlNext == ControlInv /\ [Next]_vars => ControlInv'
<1> SUFFICES ASSUME ControlInv, [Next]_vars PROVE ControlInv'
  OBVIOUS
<1> USE SecretMirrorAssumption DEF Uuids, Secrets, Issuers, Calls, PerUuid, Stages
<1>0. TypeOK /\ CallsInStage /\ CallsKnowTheirClient /\ KeycloakIsSound
  BY DEF ControlInv
<1>1. ASSUME NEW c \in Creators, NEW n \in Names, BeginCreate(c, n) PROVE ControlInv'
  <2>1. TypeOK'
    BY <1>0, <1>1, MoveTypes, AnswerTypes, FinishTypes, BeginTypes DEF BeginCreate, keycloak, TypeOK, Entries, CallsInStage, Active
  <2> USE <1>0, <1>1 DEF BeginCreate, Begin, Active, keycloak
  <2>2. CallsInStage'
    BY DEF TypeOK, CallsInStage, Active, Known, NameOf, CallsKnowTheirClient
  <2>3. CallsKnowTheirClient'
    <3>1. uuid[c] = None /\ uuid' = uuid /\ None # c /\ c \notin Known /\ c # Builtin
      BY DEF CallsKnowTheirClient, Known
    <3>2. \A k \in Calls \ {c} : name'[k] = name[k] /\ at'[k] = at[k]
      BY DEF TypeOK
    <3>3. at'[c] = "post"
      BY DEF TypeOK
    <3>4. Known' = Known /\ \A u \in Known : NameOf(u)' = NameOf(u)
      BY <3>1, <3>2 DEF Known, NameOf
    <3>5. \A k \in PerUuid : at'[k] = "idle" \/ (uuid'[k] \in Known' /\ name'[k] = NameOf(uuid[k])')
      <4> SUFFICES ASSUME NEW k \in PerUuid, at'[k] # "idle"
                   PROVE  uuid'[k] \in Known' /\ name'[k] = NameOf(uuid[k])'
        OBVIOUS
      <4>1. uuid[k] \in Known /\ name[k] = NameOf(uuid[k])
        BY <3>2 DEF CallsKnowTheirClient
      <4>2. NameOf(uuid[k])' = NameOf(uuid[k])
        BY <3>1, <3>2, <4>1 DEF NameOf, Known
      <4> QED
        BY <3>1, <3>2, <3>4, <4>1, <4>2
    <3> QED
      BY <3>1, <3>2, <3>3, <3>5 DEF CallsKnowTheirClient
  <2>4. KeycloakIsSound'
    BY DEF TypeOK, CallsInStage, CallsKnowTheirClient, KeycloakIsSound, Known, NameOf, IssuedTo, Taken
  <2> QED
    BY <2>1, <2>2, <2>3, <2>4 DEF ControlInv
<1>2. ASSUME NEW h \in PerUuid, NEW u \in Uuids, BeginOn(h, u) PROVE ControlInv'
  <2>1. TypeOK'
    <3>1. PICK n \in Names \cup {NoName}, stage \in Stages : Begin(h, n, stage)
      BY <1>0, <1>2 DEF NameOf, TypeOK, BeginOn
    <3>2. h \in Calls /\ uuid' = [uuid EXCEPT ![h] = u]
      BY <1>2 DEF BeginOn
    <3>3. /\ at' \in [Calls -> Stages \cup {"idle", "answered"}]
          /\ name' \in [Calls -> Names \cup {NoName}]
          /\ alone' \in [Calls -> BOOLEAN]
          /\ UNCHANGED <<keycloak, mirror, secret, settled>>
      <4> HIDE DEF Stages, Calls, PerUuid, Secrets, Issuers, Uuids
      <4> QED
        BY <1>0, <3>1, <3>2, BeginTypes
    <3> QED
      BY <1>0, <3>2, <3>3 DEF TypeOK, keycloak
  <2> USE <1>0, <1>2 DEF BeginOn, Begin, Active, keycloak
  <2>2. CallsInStage'
    BY DEF TypeOK, CallsInStage, Active, Known, NameOf, CallsKnowTheirClient
  <2>3. CallsKnowTheirClient'
    BY DEF TypeOK, CallsInStage, CallsKnowTheirClient, Known, NameOf, KeycloakIsSound, Taken
  <2>4. KeycloakIsSound'
    BY DEF TypeOK, CallsInStage, CallsKnowTheirClient, KeycloakIsSound, Known, NameOf, IssuedTo, Taken
  <2> QED
    BY <2>1, <2>2, <2>3, <2>4 DEF ControlInv
<1>3. ASSUME NEW h \in PerUuid, GetClient(h) PROVE ControlInv'
  <2>1. TypeOK'
    BY <1>0, <1>3, MoveTypes, AnswerTypes, FinishTypes, BeginTypes DEF GetClient, Goto, Leave, IsPartner, keycloak, TypeOK, Entries, CallsInStage, Active
  <2> USE <1>0, <1>3 DEF GetClient, Goto, Move, Leave, Answer, IsPartner, keycloak
  <2>2. CallsInStage'
    BY DEF TypeOK, CallsInStage, Active, Known, NameOf, CallsKnowTheirClient
  <2>3. CallsKnowTheirClient'
    BY DEF TypeOK, CallsInStage, CallsKnowTheirClient, Known, NameOf, KeycloakIsSound, Taken
  <2>4. KeycloakIsSound'
    BY DEF TypeOK, CallsInStage, CallsKnowTheirClient, KeycloakIsSound, Known, NameOf, IssuedTo, Taken
  <2> QED
    BY <2>1, <2>2, <2>3, <2>4 DEF ControlInv
<1>4. ASSUME NEW c \in Creators, PostClient(c) PROVE ControlInv'
  <2>1. TypeOK'
    <3>1. /\ at' \in [Calls -> Stages \cup {"idle", "answered"}]
          /\ alone' \in [Calls -> BOOLEAN]
          /\ secret' \in [Calls -> Secrets \cup {None}]
          /\ name' = name
          /\ settled' \in [Names -> BOOLEAN]
      <4>1. CASE Leave(c)
        BY <1>0, <4>1, AnswerTypes DEF Leave, TypeOK
      <4>2. CASE Goto(c, "fetch")
        BY <1>0, <4>2, MoveTypes DEF Goto, TypeOK
      <4>3. CASE Finish(c, FALSE)
        BY <1>0, <4>3, AnswerTypes, FinishTypes
      <4> QED
        BY <1>4, <4>1, <4>2, <4>3 DEF PostClient
    <3>2. /\ live' \subseteq Uuids /\ enabled' \subseteq Uuids
          /\ secretOf' \in [Uuids -> Secrets \cup {None}]
          /\ uuid' \in [Calls -> Uuids \cup {None}]
          /\ mirror' = mirror
      <4>1. CASE UNCHANGED <<keycloak, uuid>>
        BY <1>0, <1>4, <4>1 DEF PostClient, keycloak, TypeOK
      <4>2. CASE /\ live' = live \cup {c}
                 /\ secretOf' = [secretOf EXCEPT ![c] = c]
                 /\ enabled' = enabled \cup {c}
                 /\ uuid' = [uuid EXCEPT ![c] = c]
        <5>1. c \in Secrets \cup {None} /\ c \in Uuids \cup {None}
          OBVIOUS
        <5> QED
          BY <1>0, <1>4, <4>2, <5>1, UpdateType DEF PostClient, TypeOK
      <4> QED
        BY <1>4, <4>1, <4>2 DEF PostClient
    <3> QED
      BY <1>0, <3>1, <3>2 DEF TypeOK
  <2> USE <1>0, <1>4 DEF PostClient, Goto, Move, Leave, Finish, Answer, keycloak, keycloak
  <2>2. CallsInStage'
    BY DEF TypeOK, CallsInStage, Active, Known, NameOf, CallsKnowTheirClient
  <2>3. CallsKnowTheirClient'
    BY DEF TypeOK, CallsInStage, CallsKnowTheirClient, Known, NameOf, KeycloakIsSound, Taken, Active
  <2>4. KeycloakIsSound'
    BY DEF TypeOK, CallsInStage, CallsKnowTheirClient, KeycloakIsSound, Known, NameOf, IssuedTo, Taken
  <2> QED
    BY <2>1, <2>2, <2>3, <2>4 DEF ControlInv
<1>5. ASSUME NEW c \in Creators, FetchCreated(c) PROVE ControlInv'
  <2>1. TypeOK'
    BY <1>0, <1>5, MoveTypes, AnswerTypes, FinishTypes, BeginTypes DEF FetchCreated, Goto, IsPartner, keycloak, TypeOK, Entries, CallsInStage, Active
  <2> USE <1>0, <1>5 DEF FetchCreated, Goto, Move, Finish, Answer, IsPartner, keycloak
  <2>2. CallsInStage'
    BY DEF TypeOK, CallsInStage, Active, Known, NameOf, CallsKnowTheirClient
  <2>3. CallsKnowTheirClient'
    BY DEF TypeOK, CallsInStage, CallsKnowTheirClient, Known, NameOf, KeycloakIsSound, Taken
  <2>4. KeycloakIsSound'
    BY DEF TypeOK, CallsInStage, CallsKnowTheirClient, KeycloakIsSound, Known, NameOf, IssuedTo, Taken
  <2> QED
    BY <2>1, <2>2, <2>3, <2>4 DEF ControlInv
<1>6. ASSUME NEW c \in Creators, ReadCreated(c) PROVE ControlInv'
  <2>1. TypeOK'
    BY <1>0, <1>6, MoveTypes, AnswerTypes, FinishTypes, BeginTypes DEF ReadCreated, SecretRead, keycloak, TypeOK, Entries, CallsInStage, Active
  <2> USE <1>0, <1>6 DEF ReadCreated, Move, SecretRead, keycloak
  <2>2. CallsInStage'
    BY DEF TypeOK, CallsInStage, Active, Known, NameOf, CallsKnowTheirClient
  <2>3. CallsKnowTheirClient'
    BY DEF TypeOK, CallsInStage, CallsKnowTheirClient, Known, NameOf, KeycloakIsSound, Taken
  <2>4. KeycloakIsSound'
    BY DEF TypeOK, CallsInStage, CallsKnowTheirClient, KeycloakIsSound, Known, NameOf, IssuedTo, Taken
  <2> QED
    BY <2>1, <2>2, <2>3, <2>4 DEF ControlInv
<1>7. ASSUME NEW h \in PerUuid, ReadSecret(h) PROVE ControlInv'
  <2>1. TypeOK'
    BY <1>0, <1>7, MoveTypes, AnswerTypes, FinishTypes, BeginTypes DEF ReadSecret, Leave, SecretRead, keycloak, TypeOK, Entries, CallsInStage, Active
  <2> USE <1>0, <1>7 DEF ReadSecret, Move, Leave, Answer, SecretRead, keycloak
  <2>2. CallsInStage'
    BY DEF TypeOK, CallsInStage, Active, Known, NameOf, CallsKnowTheirClient
  <2>3. CallsKnowTheirClient'
    BY DEF TypeOK, CallsInStage, CallsKnowTheirClient, Known, NameOf, KeycloakIsSound, Taken
  <2>4. KeycloakIsSound'
    BY DEF TypeOK, CallsInStage, CallsKnowTheirClient, KeycloakIsSound, Known, NameOf, IssuedTo, Taken
  <2> QED
    BY <2>1, <2>2, <2>3, <2>4 DEF ControlInv
<1>8. ASSUME NEW h \in PerUuid, RegenerateSecret(h) PROVE ControlInv'
  <2>1. TypeOK'
    <3>1. h \in Regenerators
      BY <1>8 DEF RegenerateSecret
    <3>2. /\ at' \in [Calls -> Stages \cup {"idle", "answered"}]
          /\ alone' \in [Calls -> BOOLEAN]
          /\ secret' \in [Calls -> Secrets \cup {None}]
          /\ name' = name
          /\ settled' \in [Names -> BOOLEAN]
      <4>1. CASE Leave(h)
        BY <1>0, <4>1, AnswerTypes DEF Leave, TypeOK
      <4>2. CASE secret' = [secret EXCEPT ![h] = h] /\ Move(h, "mirror")
        BY <1>0, <3>1, <4>2, MoveTypes DEF TypeOK
      <4>3. CASE Finish(h, FALSE)
        BY <1>0, <4>3, AnswerTypes, FinishTypes
      <4> QED
        BY <1>8, <4>1, <4>2, <4>3 DEF RegenerateSecret
    <3>3. /\ secretOf' \in [Uuids -> Secrets \cup {None}]
          /\ UNCHANGED <<live, enabled, mirror, uuid>>
      <4>1. h \in Secrets \cup {None}
        BY <3>1
      <4>2. secretOf' = secretOf \/ secretOf' = [secretOf EXCEPT ![uuid[h]] = h]
        BY <1>8 DEF RegenerateSecret
      <4>3. secretOf' \in [Uuids -> Secrets \cup {None}]
        BY <1>0, <4>1, <4>2, UpdateType DEF TypeOK
      <4> QED
        BY <1>8, <4>3 DEF RegenerateSecret
    <3> QED
      BY <1>0, <3>2, <3>3 DEF TypeOK
  <2> USE <1>0, <1>8 DEF RegenerateSecret, Move, Leave, Finish, Answer, keycloak
  <2>2. CallsInStage'
    BY DEF TypeOK, CallsInStage, Active, Known, NameOf, CallsKnowTheirClient
  <2>3. CallsKnowTheirClient'
    BY DEF TypeOK, CallsInStage, CallsKnowTheirClient, Known, NameOf, KeycloakIsSound, Taken
  <2>4. KeycloakIsSound'
    BY DEF TypeOK, CallsInStage, CallsKnowTheirClient, KeycloakIsSound, Known, NameOf, IssuedTo, Taken
  <2> QED
    BY <2>1, <2>2, <2>3, <2>4 DEF ControlInv
<1>9. ASSUME NEW h \in PerUuid, DeleteClient(h) PROVE ControlInv'
  <2>1. TypeOK'
    BY <1>0, <1>9, MoveTypes, AnswerTypes, FinishTypes, BeginTypes DEF DeleteClient, Goto, Leave, keycloak, TypeOK, Entries, CallsInStage, Active
  <2> USE <1>0, <1>9 DEF DeleteClient, Goto, Move, Leave, Finish, Answer, keycloak
  <2>2. CallsInStage'
    BY DEF TypeOK, CallsInStage, Active, Known, NameOf, CallsKnowTheirClient
  <2>3. CallsKnowTheirClient'
    BY DEF TypeOK, CallsInStage, CallsKnowTheirClient, Known, NameOf, KeycloakIsSound, Taken
  <2>4. KeycloakIsSound'
    BY DEF TypeOK, CallsInStage, CallsKnowTheirClient, KeycloakIsSound, Known, NameOf, IssuedTo, Taken
  <2> QED
    BY <2>1, <2>2, <2>3, <2>4 DEF ControlInv
<1>10. ASSUME NEW h \in PerUuid, NEW on \in BOOLEAN, SetEnabled(h, on) PROVE ControlInv'
  <2>1. TypeOK'
    BY <1>0, <1>10, MoveTypes, AnswerTypes, FinishTypes, BeginTypes DEF SetEnabled, Leave, keycloak, TypeOK, Entries, CallsInStage, Active
  <2> USE <1>0, <1>10 DEF SetEnabled, Leave, Answer, keycloak
  <2>2. CallsInStage'
    BY DEF TypeOK, CallsInStage, Active, Known, NameOf, CallsKnowTheirClient
  <2>3. CallsKnowTheirClient'
    BY DEF TypeOK, CallsInStage, CallsKnowTheirClient, Known, NameOf, KeycloakIsSound, Taken
  <2>4. KeycloakIsSound'
    BY DEF TypeOK, CallsInStage, CallsKnowTheirClient, KeycloakIsSound, Known, NameOf, IssuedTo, Taken
  <2> QED
    BY <2>1, <2>2, <2>3, <2>4 DEF ControlInv
<1>11. ASSUME NEW h \in PerUuid, DropMirror(h) PROVE ControlInv'
  <2>1. TypeOK'
    BY <1>0, <1>11, MoveTypes, AnswerTypes, FinishTypes, BeginTypes DEF DropMirror, keycloak, TypeOK, Entries, CallsInStage, Active
  <2> USE <1>0, <1>11 DEF DropMirror, Finish, Answer, keycloak
  <2>2. CallsInStage'
    BY DEF TypeOK, CallsInStage, Active, Known, NameOf, CallsKnowTheirClient
  <2>3. CallsKnowTheirClient'
    BY DEF TypeOK, CallsInStage, CallsKnowTheirClient, Known, NameOf, KeycloakIsSound, Taken
  <2>4. KeycloakIsSound'
    BY DEF TypeOK, CallsInStage, CallsKnowTheirClient, KeycloakIsSound, Known, NameOf, IssuedTo, Taken
  <2> QED
    BY <2>1, <2>2, <2>3, <2>4 DEF ControlInv
<1>12. ASSUME NEW h \in Calls, WriteMirror(h) PROVE ControlInv'
  <2>1. TypeOK'
    <3>1. Answer(h) /\ settled' \in [Names -> BOOLEAN]
      BY <1>0, <1>12, FinishTypes DEF WriteMirror
    <3>2. CASE UNCHANGED mirror
      BY <1>0, <1>12, <3>1, <3>2, AnswerTypes DEF WriteMirror, keycloak, TypeOK
    <3>3. CASE /\ secret[h] # None
               /\ mirror' = [mirror EXCEPT ![name[h]] = [secret |-> secret[h], uuid |-> uuid[h]]]
      <4>1. at[h] = "mirror"
        BY <1>12 DEF WriteMirror
      <4>2. secret[h] \in Secrets /\ uuid[h] \in Uuids
        BY <1>0, <3>3, <4>1 DEF TypeOK, CallsInStage
      <4>3. [secret |-> secret[h], uuid |-> uuid[h]] \in Entries
        BY <4>2 DEF Entries
      <4>4. mirror' \in [Names -> Entries \cup {None}]
        BY <1>0, <3>3, <4>3, UpdateType DEF TypeOK
      <4> QED
        BY <1>0, <1>12, <3>1, <4>4, AnswerTypes DEF WriteMirror, keycloak, TypeOK
    <3> QED
      BY <1>12, <3>2, <3>3 DEF WriteMirror, Refused
  <2> USE <1>0, <1>12 DEF WriteMirror, Finish, Answer, Refused, keycloak
  <2>2. CallsInStage'
    BY DEF TypeOK, CallsInStage, Active, Known, NameOf, CallsKnowTheirClient
  <2>3. CallsKnowTheirClient'
    BY DEF TypeOK, CallsInStage, CallsKnowTheirClient, Known, NameOf, KeycloakIsSound, Taken
  <2>4. KeycloakIsSound'
    BY DEF TypeOK, CallsInStage, CallsKnowTheirClient, KeycloakIsSound, Known, NameOf, IssuedTo, Taken
  <2> QED
    BY <2>1, <2>2, <2>3, <2>4 DEF ControlInv
<1>13. CASE UNCHANGED vars
  BY <1>0, <1>13 DEF vars, ControlInv, TypeOK, CallsInStage, Active, CallsKnowTheirClient, KeycloakIsSound, Known, NameOf, IssuedTo
<1> QED
  BY <1>1, <1>2, <1>3, <1>4, <1>5, <1>6, <1>7, <1>8, <1>9, <1>10, <1>11, <1>12, <1>13 DEF Next

----------------------------------------------------------------------------
\* What a secret or a client was issued to never changes.
HistoryIsKept ==
  /\ \A k \in Calls : uuid[k] # None => uuid'[k] = uuid[k]
  /\ \A c \in Creators : uuid[c] = c => name'[c] = name[c]
  /\ \A k \in Calls : Active(k) => name'[k] = name[k]

\* A call keeps its uuid, a client its clientId.
LEMMA HistoryNext == ControlInv /\ [Next]_vars => HistoryIsKept
<1> SUFFICES ASSUME ControlInv, [Next]_vars PROVE HistoryIsKept
  OBVIOUS
<1>0. TypeOK /\ CallsKnowTheirClient
  BY DEF ControlInv
<1> USE SecretMirrorAssumption, <1>0 DEF HistoryIsKept, Calls, PerUuid, TypeOK, CallsKnowTheirClient, Active, Stages
<1>1. ASSUME NEW c \in Creators, NEW n \in Names, BeginCreate(c, n) PROVE HistoryIsKept
  BY <1>1 DEF BeginCreate, Begin, keycloak
<1>2. ASSUME NEW h \in PerUuid, NEW u \in Uuids, BeginOn(h, u) PROVE HistoryIsKept
  BY <1>2 DEF BeginOn, Begin, keycloak
<1>3. ASSUME NEW h \in PerUuid, GetClient(h) PROVE HistoryIsKept
  BY <1>3 DEF GetClient, Goto, Move, Leave, Answer, keycloak
<1>4. ASSUME NEW c \in Creators, PostClient(c) PROVE HistoryIsKept
  BY <1>4 DEF PostClient, Goto, Move, Leave, Finish, Answer, keycloak
<1>5. ASSUME NEW c \in Creators, FetchCreated(c) PROVE HistoryIsKept
  BY <1>5 DEF FetchCreated, Goto, Move, Finish, Answer, keycloak
<1>6. ASSUME NEW c \in Creators, ReadCreated(c) PROVE HistoryIsKept
  BY <1>6 DEF ReadCreated, Move, SecretRead, keycloak
<1>7. ASSUME NEW h \in PerUuid, ReadSecret(h) PROVE HistoryIsKept
  BY <1>7 DEF ReadSecret, Move, Leave, Answer, SecretRead, keycloak
<1>8. ASSUME NEW h \in PerUuid, RegenerateSecret(h) PROVE HistoryIsKept
  BY <1>8 DEF RegenerateSecret, Move, Leave, Finish, Answer, keycloak
<1>9. ASSUME NEW h \in PerUuid, DeleteClient(h) PROVE HistoryIsKept
  BY <1>9 DEF DeleteClient, Goto, Move, Leave, Finish, Answer, keycloak
<1>10. ASSUME NEW h \in PerUuid, NEW on \in BOOLEAN, SetEnabled(h, on) PROVE HistoryIsKept
  BY <1>10 DEF SetEnabled, Leave, Answer, keycloak
<1>11. ASSUME NEW h \in PerUuid, DropMirror(h) PROVE HistoryIsKept
  BY <1>11 DEF DropMirror, Finish, Answer, keycloak
<1>12. ASSUME NEW h \in Calls, WriteMirror(h) PROVE HistoryIsKept
  BY <1>12 DEF WriteMirror, Finish, Answer, Refused, keycloak
<1>13. CASE UNCHANGED vars
  BY <1>13 DEF vars
<1> QED
  BY <1>1, <1>2, <1>3, <1>4, <1>5, <1>6, <1>7, <1>8, <1>9, <1>10, <1>11, <1>12, <1>13 DEF Next

\* A held secret, and a mirrored one, was issued to the client it is held for.
PairedInv ==
  /\ \A h \in Calls : secret[h] # None =>
        secret[h] \in Issuers /\ IssuedTo(secret[h]) = uuid[h] /\ uuid[h] \in Creators
  /\ \A n \in Names : mirror[n] # None =>
        /\ mirror[n].secret \in Issuers
        /\ mirror[n].uuid \in Creators \cap Known
        /\ IssuedTo(mirror[n].secret) = mirror[n].uuid
        /\ name[mirror[n].uuid] = n

\* At the start nothing is held or mirrored.
LEMMA PairedInit == Init => PairedInv
BY DEF Init, PairedInv

\* A secret is read from the client a call is about, and written through under
\* that client's name and uuid.
LEMMA PairedNext == ControlInv /\ PairedInv /\ [Next]_vars => PairedInv'
<1> SUFFICES ASSUME ControlInv, PairedInv, [Next]_vars PROVE PairedInv'
  OBVIOUS
<1> DEFINE Held(h) == secret[h] # None =>
             secret[h] \in Issuers /\ IssuedTo(secret[h]) = uuid[h] /\ uuid[h] \in Creators
           Entry(n) == mirror[n] # None =>
             /\ mirror[n].secret \in Issuers
             /\ mirror[n].uuid \in Creators \cap Known
             /\ IssuedTo(mirror[n].secret) = mirror[n].uuid
             /\ name[mirror[n].uuid] = n
<1>0. /\ TypeOK /\ CallsInStage /\ CallsKnowTheirClient /\ KeycloakIsSound
      /\ HistoryIsKept
      /\ \A h \in Calls : Held(h)
      /\ \A n \in Names : Entry(n)
  BY HistoryNext DEF ControlInv, PairedInv
<1>a. ASSUME NEW s \in Issuers, IssuedTo(s) \in Creators PROVE IssuedTo(s)' = IssuedTo(s)
  BY <1>0, <1>a, SecretMirrorAssumption DEF HistoryIsKept, IssuedTo, Issuers, Calls, PerUuid
<1>b. ASSUME NEW h \in Calls, secret'[h] = secret[h] PROVE Held(h)'
  BY <1>0, <1>a, <1>b, SecretMirrorAssumption DEF HistoryIsKept, Calls, PerUuid
<1>c. ASSUME NEW n \in Names, mirror'[n] = mirror[n] PROVE Entry(n)'
  BY <1>0, <1>a, <1>c, SecretMirrorAssumption DEF HistoryIsKept, Calls, PerUuid, Known
<1>d. ASSUME NEW h \in Calls, uuid[h] \in Creators \cap live, secret'[h] = secretOf[uuid[h]] PROVE Held(h)'
  BY <1>0, <1>a, <1>d, SecretMirrorAssumption DEF HistoryIsKept, Calls, PerUuid, KeycloakIsSound, Known
<1>e. ASSUME NEW h \in Calls, secret'[h] = None PROVE Held(h)'
  BY <1>e
<1>1. ASSUME NEW c \in Creators, NEW n \in Names, BeginCreate(c, n) PROVE PairedInv'
  <2>1. \A k \in Calls : Held(k)'
    BY <1>b, <1>1 DEF BeginCreate, Begin
  <2>2. \A n0 \in Names : Entry(n0)'
    BY <1>c, <1>1 DEF BeginCreate, Begin
  <2> QED
    BY <2>1, <2>2 DEF PairedInv
<1>2. ASSUME NEW h \in PerUuid, NEW u \in Uuids, BeginOn(h, u) PROVE PairedInv'
  <2>1. \A k \in Calls : Held(k)'
    BY <1>b, <1>2 DEF BeginOn, Begin
  <2>2. \A n0 \in Names : Entry(n0)'
    BY <1>c, <1>2 DEF BeginOn, Begin
  <2> QED
    BY <2>1, <2>2 DEF PairedInv
<1>3. ASSUME NEW h \in PerUuid, GetClient(h) PROVE PairedInv'
  <2>1. \A k \in Calls : Held(k)'
    <3>1. \A k \in Calls \ {h} : secret'[k] = secret[k]
      BY <1>0, <1>3 DEF GetClient, Goto, Move, Leave, Answer, TypeOK
    <3>2. Held(h)'
      BY <1>0, <1>3, <1>b, <1>d, <1>e, SecretMirrorAssumption DEF GetClient, Goto, Move, Leave, Answer, TypeOK, CallsInStage, KeycloakIsSound, Calls, PerUuid
    <3> QED
      BY <1>b, <3>1, <3>2
  <2>2. \A n0 \in Names : Entry(n0)'
    BY <1>c, <1>3 DEF GetClient
  <2> QED
    BY <2>1, <2>2 DEF PairedInv
<1>4. ASSUME NEW c \in Creators, PostClient(c) PROVE PairedInv'
  <2>1. \A k \in Calls : Held(k)'
    <3>1. \A k \in Calls \ {c} : secret'[k] = secret[k]
      BY <1>0, <1>4 DEF PostClient, Goto, Move, Leave, Finish, Answer, TypeOK
    <3>2. Held(c)'
      BY <1>0, <1>4, <1>b, <1>d, <1>e, SecretMirrorAssumption DEF PostClient, Goto, Move, Leave, Finish, Answer, TypeOK, CallsInStage, KeycloakIsSound, Calls, PerUuid
    <3> QED
      BY <1>b, <3>1, <3>2
  <2>2. \A n0 \in Names : Entry(n0)'
    BY <1>c, <1>4 DEF PostClient
  <2> QED
    BY <2>1, <2>2 DEF PairedInv
<1>5. ASSUME NEW c \in Creators, FetchCreated(c) PROVE PairedInv'
  <2>1. \A k \in Calls : Held(k)'
    <3>1. \A k \in Calls \ {c} : secret'[k] = secret[k]
      BY <1>0, <1>5 DEF FetchCreated, Goto, Move, Finish, Answer, TypeOK
    <3>2. Held(c)'
      BY <1>0, <1>5, <1>b, <1>d, <1>e, SecretMirrorAssumption DEF FetchCreated, Goto, Move, Finish, Answer, TypeOK, CallsInStage, KeycloakIsSound, Calls, PerUuid
    <3> QED
      BY <1>b, <3>1, <3>2
  <2>2. \A n0 \in Names : Entry(n0)'
    BY <1>c, <1>5 DEF FetchCreated
  <2> QED
    BY <2>1, <2>2 DEF PairedInv
<1>6. ASSUME NEW c \in Creators, ReadCreated(c) PROVE PairedInv'
  <2>1. \A k \in Calls : Held(k)'
    <3>1. \A k \in Calls \ {c} : secret'[k] = secret[k]
      BY <1>0, <1>6 DEF ReadCreated, Move, SecretRead, TypeOK
    <3>2. Held(c)'
      BY <1>0, <1>6, <1>b, <1>d, <1>e, SecretMirrorAssumption DEF ReadCreated, Move, SecretRead, TypeOK, CallsInStage, KeycloakIsSound, Calls, PerUuid
    <3> QED
      BY <1>b, <3>1, <3>2
  <2>2. \A n0 \in Names : Entry(n0)'
    BY <1>c, <1>6 DEF ReadCreated
  <2> QED
    BY <2>1, <2>2 DEF PairedInv
<1>7. ASSUME NEW h \in PerUuid, ReadSecret(h) PROVE PairedInv'
  <2>1. \A k \in Calls : Held(k)'
    <3>1. \A k \in Calls \ {h} : secret'[k] = secret[k]
      BY <1>0, <1>7 DEF ReadSecret, Move, Leave, Answer, SecretRead, TypeOK
    <3>2. Held(h)'
      BY <1>0, <1>7, <1>b, <1>d, <1>e, SecretMirrorAssumption DEF ReadSecret, Move, Leave, Answer, SecretRead, TypeOK, CallsInStage, KeycloakIsSound, Calls, PerUuid
    <3> QED
      BY <1>b, <3>1, <3>2
  <2>2. \A n0 \in Names : Entry(n0)'
    BY <1>c, <1>7 DEF ReadSecret
  <2> QED
    BY <2>1, <2>2 DEF PairedInv
<1>8. ASSUME NEW h \in PerUuid, RegenerateSecret(h) PROVE PairedInv'
  <2>1. \A k \in Calls : Held(k)'
    <3>1. \A k \in Calls \ {h} : secret'[k] = secret[k]
      BY <1>0, <1>8 DEF RegenerateSecret, Move, Leave, Finish, Answer, TypeOK
    <3>2. Held(h)'
      <4>1. h \in Regenerators /\ h \in Calls
        BY <1>8 DEF RegenerateSecret, Calls, PerUuid
      <4>2. secret'[h] = None \/ (secret'[h] = h /\ uuid'[h] = uuid[h] /\ uuid[h] \in Creators)
        BY <1>0, <1>8, <4>1 DEF RegenerateSecret, Leave, Finish, Answer, Move, TypeOK, CallsInStage
      <4> QED
        BY <4>1, <4>2 DEF IssuedTo, Issuers
    <3> QED
      BY <1>b, <3>1, <3>2
  <2>2. \A n0 \in Names : Entry(n0)'
    BY <1>c, <1>8 DEF RegenerateSecret
  <2> QED
    BY <2>1, <2>2 DEF PairedInv
<1>9. ASSUME NEW h \in PerUuid, DeleteClient(h) PROVE PairedInv'
  <2>1. \A k \in Calls : Held(k)'
    <3>1. \A k \in Calls \ {h} : secret'[k] = secret[k]
      BY <1>0, <1>9 DEF DeleteClient, Goto, Move, Leave, Finish, Answer, TypeOK
    <3>2. Held(h)'
      BY <1>0, <1>9, <1>b, <1>d, <1>e, SecretMirrorAssumption DEF DeleteClient, Goto, Move, Leave, Finish, Answer, TypeOK, CallsInStage, KeycloakIsSound, Calls, PerUuid
    <3> QED
      BY <1>b, <3>1, <3>2
  <2>2. \A n0 \in Names : Entry(n0)'
    BY <1>c, <1>9 DEF DeleteClient
  <2> QED
    BY <2>1, <2>2 DEF PairedInv
<1>10. ASSUME NEW h \in PerUuid, NEW on \in BOOLEAN, SetEnabled(h, on) PROVE PairedInv'
  <2>1. \A k \in Calls : Held(k)'
    <3>1. \A k \in Calls \ {h} : secret'[k] = secret[k]
      BY <1>0, <1>10 DEF SetEnabled, Leave, Answer, TypeOK
    <3>2. Held(h)'
      BY <1>0, <1>10, <1>b, <1>d, <1>e, SecretMirrorAssumption DEF SetEnabled, Leave, Answer, TypeOK, CallsInStage, KeycloakIsSound, Calls, PerUuid
    <3> QED
      BY <1>b, <3>1, <3>2
  <2>2. \A n0 \in Names : Entry(n0)'
    BY <1>c, <1>10 DEF SetEnabled
  <2> QED
    BY <2>1, <2>2 DEF PairedInv
<1>11. ASSUME NEW h \in PerUuid, DropMirror(h) PROVE PairedInv'
  <2>1. \A k \in Calls : Held(k)'
    <3>1. \A k \in Calls \ {h} : secret'[k] = secret[k]
      BY <1>0, <1>11 DEF DropMirror, Finish, Answer, TypeOK
    <3>2. Held(h)'
      BY <1>0, <1>11, <1>b, <1>d, <1>e, SecretMirrorAssumption DEF DropMirror, Finish, Answer, TypeOK, CallsInStage, KeycloakIsSound, Calls, PerUuid
    <3> QED
      BY <1>b, <3>1, <3>2
  <2>2. \A n0 \in Names : Entry(n0)'
    <3>1. \A n \in Names : mirror'[n] = mirror[n] \/ mirror'[n] = None
      BY <1>0, <1>11 DEF DropMirror, TypeOK
    <3> QED
      BY <1>c, <3>1
  <2> QED
    BY <2>1, <2>2 DEF PairedInv
<1>12. ASSUME NEW h \in Calls, WriteMirror(h) PROVE PairedInv'
  <2>1. \A k \in Calls : Held(k)'
    <3>1. \A k \in Calls \ {h} : secret'[k] = secret[k]
      BY <1>0, <1>12 DEF WriteMirror, Finish, Answer, Refused, TypeOK
    <3>2. Held(h)'
      BY <1>0, <1>12, <1>b, <1>d, <1>e, SecretMirrorAssumption DEF WriteMirror, Finish, Answer, Refused, TypeOK, CallsInStage, KeycloakIsSound, Calls, PerUuid
    <3> QED
      BY <1>b, <3>1, <3>2
  <2>2. \A n0 \in Names : Entry(n0)'
    <3>1. CASE UNCHANGED mirror
      BY <3>1, <1>c
    <3>2. CASE /\ secret[h] # None /\ at[h] = "mirror"
               /\ mirror' = [mirror EXCEPT ![name[h]] = [secret |-> secret[h], uuid |-> uuid[h]]]
      <4>1. PICK m \in Names, t \in Issuers, u \in Creators :
                 /\ m = name[h] /\ t = secret[h] /\ u = uuid[h] /\ IssuedTo(t) = u
        BY <1>0, <3>2 DEF CallsInStage, Active, Stages
      <4>2. u \in Known /\ name[u] = m
        BY <1>0, <3>2, <4>1, SecretMirrorAssumption DEF CallsInStage, CallsKnowTheirClient, NameOf, Known, Calls, PerUuid
      <4>3. mirror'[m] = [secret |-> t, uuid |-> u]
        BY <1>0, <3>2, <4>1 DEF TypeOK
      <4>4. uuid'[u] = u /\ name'[u] = m
        BY <1>0, <4>2, SecretMirrorAssumption DEF HistoryIsKept, Known, Calls
      <4>5. IssuedTo(t)' = u
        BY <1>a, <4>1
      <4>6. Entry(m)'
        BY <4>3, <4>4, <4>5 DEF Known
      <4>7. \A n \in Names \ {m} : mirror'[n] = mirror[n]
        BY <1>0, <3>2, <4>1 DEF TypeOK
      <4> QED
        BY <1>c, <4>6, <4>7
    <3> QED
      BY <1>12, <3>1, <3>2 DEF WriteMirror, Refused
  <2> QED
    BY <2>1, <2>2 DEF PairedInv
<1>13. CASE UNCHANGED vars
  BY <1>0, <1>b, <1>c, <1>13 DEF vars, PairedInv
<1> QED
  BY <1>1, <1>2, <1>3, <1>4, <1>5, <1>6, <1>7, <1>8, <1>9, <1>10, <1>11, <1>12, <1>13 DEF Next

----------------------------------------------------------------------------
\* A call that changed Keycloak, or read a secret, and has not been answered.
Dirty(h) == at[h] \in {"fetch", "secret", "mirror", "unmirror"}

\* Two calls on one clientId know that they overlap.
OverlapIsSeen ==
  \A h, k \in Calls : h # k /\ Active(h) /\ Active(k) /\ name[h] = name[k] => ~alone[h]

\* What a call that runs alone holds is what Keycloak would answer now.
SoloIsCurrent ==
  \A h \in Calls : alone[h] =>
     /\ at[h] = "mirror" /\ secret[h] # None =>
           uuid[h] \in live /\ secretOf[uuid[h]] = secret[h]
     /\ at[h] = "op" => uuid[h] \in live
     /\ at[h] = "unmirror" => ~Taken(name[h])

SettledIsMirrored ==
  \A n \in Names : settled[n] =>
     Mirrored(n) \/ \E h \in Calls : Dirty(h) /\ name[h] = n

SettledInv == OverlapIsSeen /\ SoloIsCurrent /\ SettledIsMirrored

\* The steps of a call after its beginning.
StepOf(h) ==
  \/ h \in Creators /\ (PostClient(h) \/ FetchCreated(h) \/ ReadCreated(h))
  \/ h \in PerUuid /\ \/ GetClient(h) \/ ReadSecret(h) \/ RegenerateSecret(h) \/ DeleteClient(h)
                      \/ \E on \in BOOLEAN : SetEnabled(h, on)
                      \/ DropMirror(h)
  \/ WriteMirror(h)

\* A step of a call disturbs no other call and no other clientId.
Frame(h) ==
  /\ Active(h) /\ name' = name
  /\ \A k \in Calls \ {h} : /\ at'[k] = at[k] /\ alone'[k] = alone[k]
                            /\ secret'[k] = secret[k] /\ uuid'[k] = uuid[k]
  /\ at'[h] = "answered" \/ alone'[h] = alone[h]
  /\ \A n \in Names \ {name[h]} : settled'[n] = settled[n] /\ mirror'[n] = mirror[n]
  /\ \A u \in Known : NameOf(u) # name[h] =>
        (u \in live' <=> u \in live) /\ secretOf'[u] = secretOf[u]
  /\ \A u \in live' : u \in live \/ (u = h /\ h \in Creators)

\* Each step of a call stays within its own clientId.
LEMMA StepFrame == ASSUME ControlInv, NEW h \in Calls, StepOf(h) PROVE Frame(h)
<1>0. TypeOK /\ CallsInStage /\ CallsKnowTheirClient /\ KeycloakIsSound
  BY DEF ControlInv
<1> USE SecretMirrorAssumption, <1>0 DEF Calls, PerUuid, Uuids, Stages, Active, Frame, keycloak
<1>1. ASSUME h \in PerUuid, GetClient(h) PROVE Frame(h)
  BY <1>1 DEF GetClient, Goto, Move, Leave, Answer, TypeOK, CallsInStage, CallsKnowTheirClient, KeycloakIsSound, Known, NameOf
<1>2. ASSUME h \in Creators, PostClient(h) PROVE Frame(h)
  BY <1>2 DEF PostClient, Goto, Move, Leave, Finish, Answer, TypeOK, CallsInStage, CallsKnowTheirClient, KeycloakIsSound, Known, NameOf
<1>3. ASSUME h \in Creators, FetchCreated(h) PROVE Frame(h)
  BY <1>3 DEF FetchCreated, Goto, Move, Finish, Answer, TypeOK, CallsInStage, CallsKnowTheirClient, KeycloakIsSound, Known, NameOf
<1>4. ASSUME h \in Creators, ReadCreated(h) PROVE Frame(h)
  BY <1>4 DEF ReadCreated, Move, SecretRead, TypeOK, CallsInStage, CallsKnowTheirClient, KeycloakIsSound, Known, NameOf
<1>5. ASSUME h \in PerUuid, ReadSecret(h) PROVE Frame(h)
  BY <1>5 DEF ReadSecret, Move, Leave, Answer, SecretRead, TypeOK, CallsInStage, CallsKnowTheirClient, KeycloakIsSound, Known, NameOf
<1>6. ASSUME h \in PerUuid, RegenerateSecret(h) PROVE Frame(h)
  BY <1>6 DEF RegenerateSecret, Move, Leave, Finish, Answer, TypeOK, CallsInStage, CallsKnowTheirClient, KeycloakIsSound, Known, NameOf
<1>7. ASSUME h \in PerUuid, DeleteClient(h) PROVE Frame(h)
  BY <1>7 DEF DeleteClient, Goto, Move, Leave, Finish, Answer, TypeOK, CallsInStage, CallsKnowTheirClient, KeycloakIsSound, Known, NameOf
<1>8. ASSUME h \in PerUuid, \E on \in BOOLEAN : SetEnabled(h, on) PROVE Frame(h)
  BY <1>8 DEF SetEnabled, Leave, Answer, TypeOK, CallsInStage, CallsKnowTheirClient, KeycloakIsSound, Known, NameOf
<1>9. ASSUME h \in PerUuid, DropMirror(h) PROVE Frame(h)
  BY <1>9 DEF DropMirror, Finish, Answer, TypeOK, CallsInStage, CallsKnowTheirClient, KeycloakIsSound, Known, NameOf
<1>10. ASSUME WriteMirror(h) PROVE Frame(h)
  BY <1>10 DEF WriteMirror, Finish, Answer, Refused, TypeOK, CallsInStage, CallsKnowTheirClient, KeycloakIsSound, Known, NameOf
<1> QED
  BY <1>1, <1>2, <1>3, <1>4, <1>5, <1>6, <1>7, <1>8, <1>9, <1>10 DEF StepOf

\* What a step does to its own clientId: a call that runs alone holds what
\* Keycloak would answer, and one that ends well leaves it mirrored.
Own(h) ==
  /\ alone'[h] /\ at'[h] = "mirror" /\ secret'[h] # None =>
        uuid'[h] \in live' /\ secretOf'[uuid'[h]] = secret'[h]
  /\ alone'[h] /\ at'[h] = "op" => uuid'[h] \in live'
  /\ alone'[h] /\ at'[h] = "unmirror" => ~Taken(name[h])'
  /\ \/ settled'[name[h]] = FALSE
     \/ Dirty(h)'
     \/ Mirrored(name[h])'
     \/ ~Dirty(h) /\ UNCHANGED <<live, secretOf, mirror, settled>>

\* The answer to a call that changed something says whether it went well and
\* alone.
LEMMA EndSettles ==
  ASSUME TypeOK, NEW h \in Calls, name[h] \in Names, NEW good \in BOOLEAN, Finish(h, good)
  PROVE  at'[h] = "answered" /\ (settled'[name[h]] = (good /\ alone[h])) /\ name' = name
<1>1. settled' = [settled EXCEPT ![name[h]] = good /\ alone[h]] /\ Answer(h)
  BY DEF Finish
<1>2. DOMAIN settled = Names
  BY DEF TypeOK
<1>3. settled'[name[h]] = (good /\ alone[h])
  BY <1>1, <1>2, Zenon
<1> QED
  BY <1>1, <1>3 DEF Answer, TypeOK

\* A call that ends badly unsettles its clientId.
LEMMA FailureOwn ==
  ASSUME TypeOK, NEW h \in Calls, name[h] \in Names, Finish(h, FALSE)
  PROVE  Own(h)
<1>1. at'[h] = "answered" /\ (settled'[name[h]] = (FALSE /\ alone[h]))
  BY EndSettles
<1>2. settled'[name[h]] = FALSE
  BY <1>1, Zenon
<1> QED
  BY <1>1, <1>2 DEF Own

\* A call that ends well leaves its clientId settled only if it is mirrored.
LEMMA SuccessOwn ==
  ASSUME TypeOK, NEW h \in Calls, name[h] \in Names, Finish(h, TRUE),
         alone[h] => Mirrored(name[h])'
  PROVE  Own(h)
<1>1. at'[h] = "answered" /\ (settled'[name[h]] = (TRUE /\ alone[h]))
  BY EndSettles
<1>2. alone[h] \in BOOLEAN
  BY DEF TypeOK
<1>3. settled'[name[h]] = FALSE \/ Mirrored(name[h])'
  BY <1>1, <1>2, Zenon
<1> QED
  BY <1>1, <1>3 DEF Own

\* A call that changed nothing leaves what was settled settled.
LEMMA LeaveOwn ==
  ASSUME TypeOK, NEW h \in Calls, ~Dirty(h), Leave(h), UNCHANGED <<live, secretOf, mirror>>
  PROVE  Own(h)
BY DEF Own, Leave, Answer, TypeOK

\* Every step of a call does to its own clientId what it should.
LEMMA StepOwn == ASSUME ControlInv, SoloIsCurrent, NEW h \in Calls, StepOf(h) PROVE Own(h)
<1>0. TypeOK /\ CallsInStage /\ CallsKnowTheirClient /\ KeycloakIsSound /\ Frame(h)
  BY StepFrame DEF ControlInv
<1>a. name[h] \in Names
  BY <1>0 DEF CallsInStage, Frame
<1>b. h \in Creators => h \notin PerUuid
  BY SecretMirrorAssumption
<1>1. ASSUME h \in PerUuid, GetClient(h) PROVE Own(h)
  <2>1. CASE Leave(h)
    BY <1>0, <1>1, <2>1, LeaveOwn DEF GetClient, Dirty, keycloak
  <2>2. CASE IsPartner(uuid[h]) /\ Goto(h, IF at[h] = "look" THEN "recheck" ELSE "op")
    <3>1. at'[h] \in {"recheck", "op"} /\ uuid[h] \in live /\ UNCHANGED <<live, secretOf, mirror, settled, uuid>>
      BY <1>0, <1>1, <2>2 DEF GetClient, IsPartner, Goto, Move, TypeOK, keycloak
    <3> QED
      BY <1>1, <3>1 DEF GetClient, Own, Dirty
  <2> QED
    BY <1>1, <2>1, <2>2 DEF GetClient
<1>2. ASSUME h \in Creators, PostClient(h) PROVE Own(h)
  <2>1. CASE Leave(h) /\ UNCHANGED <<keycloak, uuid>>
    BY <1>0, <1>2, <2>1, LeaveOwn DEF PostClient, Dirty, keycloak
  <2>2. CASE Goto(h, "fetch")
    BY <1>0, <2>2 DEF Goto, Move, Own, Dirty, TypeOK
  <2>3. CASE Finish(h, FALSE)
    BY <1>0, <1>a, <2>3, FailureOwn
  <2> QED
    BY <1>2, <2>1, <2>2, <2>3 DEF PostClient
<1>3. ASSUME h \in Creators, FetchCreated(h) PROVE Own(h)
  <2>1. CASE Goto(h, "secret")
    BY <1>0, <2>1 DEF Goto, Move, Own, Dirty, TypeOK
  <2> QED
    BY <1>0, <1>a, <1>3, <2>1, FailureOwn DEF FetchCreated
<1>4. ASSUME h \in Creators, ReadCreated(h) PROVE Own(h)
  <2>1. at[h] = "secret" /\ at'[h] = "mirror" /\ UNCHANGED <<keycloak, uuid>>
    BY <1>0, <1>4 DEF ReadCreated, Move, TypeOK
  <2>2. secret'[h] = secret[h] \/ (uuid[h] \in live /\ secret'[h] = secretOf[uuid[h]])
    BY <1>0, <1>4 DEF ReadCreated, SecretRead, TypeOK
  <2>3. secret[h] = None
    BY <1>0, <2>1 DEF CallsInStage
  <2> QED
    BY <2>1, <2>2, <2>3 DEF Own, Dirty, keycloak
<1>5. ASSUME h \in PerUuid, ReadSecret(h) PROVE Own(h)
  <2>1. CASE Leave(h)
    BY <1>0, <1>5, <2>1, LeaveOwn DEF ReadSecret, Dirty, keycloak
  <2>2. CASE Move(h, "mirror")
    BY <1>0, <1>5, <2>2 DEF ReadSecret, SecretRead, Leave, Answer, Move, Own, Dirty, TypeOK, keycloak
  <2> QED
    BY <1>5, <2>1, <2>2 DEF ReadSecret
<1>6. ASSUME h \in PerUuid, RegenerateSecret(h) PROVE Own(h)
  <2>1. CASE Leave(h) /\ UNCHANGED secretOf
    BY <1>0, <1>6, <2>1, LeaveOwn DEF RegenerateSecret, Dirty
  <2>2. CASE /\ uuid[h] \in live
             /\ secretOf' = [secretOf EXCEPT ![uuid[h]] = h]
             /\ secret' = [secret EXCEPT ![h] = h] /\ Move(h, "mirror")
    BY <1>0, <1>6, <2>2 DEF RegenerateSecret, Move, Own, Dirty, TypeOK
  <2>3. CASE Finish(h, FALSE)
    BY <1>0, <1>a, <2>3, FailureOwn
  <2> QED
    BY <1>6, <2>1, <2>2, <2>3 DEF RegenerateSecret
<1>7. ASSUME h \in PerUuid, DeleteClient(h) PROVE Own(h)
  <2>1. CASE Leave(h) /\ UNCHANGED <<live, enabled>>
    BY <1>0, <1>7, <2>1, LeaveOwn DEF DeleteClient, Dirty
  <2>2. CASE live' = live \ {uuid[h]} /\ Goto(h, "unmirror")
    <3>1. at'[h] = "unmirror" /\ name' = name /\ uuid' = uuid
      BY <1>0, <1>7, <2>2 DEF DeleteClient, Goto, Move, TypeOK
    <3>2. uuid[h] \in Known /\ name[h] = NameOf(uuid[h])
      BY <1>0, <1>7 DEF DeleteClient, CallsKnowTheirClient
    <3>3. ASSUME alone'[h] PROVE ~Taken(name[h])'
      <4>0. uuid[h] \in live
        BY <1>0, <1>7, <2>2, <3>3 DEF DeleteClient, Goto, Move, SoloIsCurrent
      <4> SUFFICES ASSUME NEW u \in live', NameOf(u)' = name'[h] PROVE FALSE
        BY DEF Taken
      <4>1. u \in live /\ u # uuid[h]
        BY <2>2
      <4>2. NameOf(u) = name[h]
        BY <3>1 DEF NameOf
      <4>3. \A v \in live : NameOf(v) = NameOf(u) => v = u
        BY <1>0, <4>1 DEF KeycloakIsSound
      <4> QED
        BY <3>2, <4>0, <4>1, <4>2, <4>3
    <3> QED
      BY <3>1, <3>3 DEF Own, Dirty
  <2>3. CASE Finish(h, FALSE)
    BY <1>0, <1>a, <2>3, FailureOwn
  <2> QED
    BY <1>7, <2>1, <2>2, <2>3 DEF DeleteClient
<1>8. ASSUME h \in PerUuid, NEW on \in BOOLEAN, SetEnabled(h, on) PROVE Own(h)
  BY <1>0, <1>8, LeaveOwn DEF SetEnabled, Dirty
<1>9. ASSUME h \in PerUuid, DropMirror(h) PROVE Own(h)
  <2>1. CASE mirror' = [mirror EXCEPT ![name[h]] = None] /\ Finish(h, TRUE)
    <3>1. mirror'[name[h]] = None
      BY <1>0, <1>a, <2>1 DEF TypeOK
    <3>2. alone[h] => ~Taken(name[h])
      BY <1>9 DEF DropMirror, SoloIsCurrent
    <3>3. live' = live /\ name' = name
      BY <1>9, <2>1 DEF DropMirror, keycloak, Finish, Answer
    <3>4. alone[h] => Mirrored(name[h])'
      BY <3>1, <3>2, <3>3 DEF Mirrored, Taken, NameOf
    <3> QED
      BY <1>0, <1>a, <2>1, <3>4, SuccessOwn
  <2>2. CASE Finish(h, FALSE)
    BY <1>0, <1>a, <2>2, FailureOwn
  <2> QED
    BY <1>9, <2>1, <2>2 DEF DropMirror
<1>10. ASSUME WriteMirror(h) PROVE Own(h)
  <2>1. CASE Finish(h, FALSE)
    BY <1>0, <1>a, <2>1, FailureOwn
  <2>2. CASE /\ secret[h] # None
             /\ mirror' = [mirror EXCEPT ![name[h]] = [secret |-> secret[h], uuid |-> uuid[h]]]
             /\ Finish(h, TRUE)
    <3>1. at[h] = "mirror" /\ UNCHANGED <<live, secretOf, uuid, name>>
      BY <1>10, <2>2 DEF WriteMirror, keycloak, Finish, Answer
    <3>2. mirror'[name[h]] = [secret |-> secret[h], uuid |-> uuid[h]]
      BY <1>0, <1>a, <2>2 DEF TypeOK
    <3>3. NameOf(uuid[h]) = name[h]
      BY <1>0, <1>b, <3>1, SecretMirrorAssumption DEF CallsInStage, CallsKnowTheirClient, NameOf, Calls
    <3>4. alone[h] => uuid[h] \in live /\ secretOf[uuid[h]] = secret[h]
      BY <2>2, <3>1 DEF SoloIsCurrent
    <3>5. alone[h] => Mirrored(name[h])'
      BY <3>1, <3>2, <3>3, <3>4 DEF Mirrored, NameOf
    <3> QED
      BY <1>0, <1>a, <2>2, <3>5, SuccessOwn
  <2> QED
    BY <1>10, <2>1, <2>2 DEF WriteMirror, Refused
<1> QED
  BY <1>1, <1>2, <1>3, <1>4, <1>5, <1>6, <1>7, <1>8, <1>9, <1>10 DEF StepOf

\* Beginning a call disturbs nothing, and marks the calls it overlaps.
LEMMA BeginSettled ==
  ASSUME ControlInv, SettledInv, HistoryIsKept, NEW h \in Calls,
         NEW n \in Names \cup {NoName}, NEW stage \in {"post", "look", "recheck"}, Begin(h, n, stage)
  PROVE  SettledInv'
<1> USE DEF ControlInv, SettledInv
<1>0. TypeOK /\ CallsInStage /\ CallsKnowTheirClient /\ KeycloakIsSound
  OBVIOUS
<1>1. /\ at[h] = "idle" /\ at'[h] = stage /\ name'[h] = n
      /\ \A k \in Calls \ {h} : at'[k] = at[k] /\ name'[k] = name[k]
      /\ UNCHANGED <<live, secretOf, mirror, secret, settled>>
  BY <1>0 DEF Begin, TypeOK, keycloak
<1>2. \A k \in Calls \ {h} :
        /\ alone'[k] = FALSE \/ alone'[k] = alone[k]
        /\ Active(k) /\ name[k] = n => alone'[k] = FALSE /\ alone'[h] = FALSE
  BY <1>0 DEF Begin, TypeOK
<1>3. OverlapIsSeen'
  <2> SUFFICES ASSUME NEW j \in Calls, NEW k \in Calls, j # k, Active(j)', Active(k)', name'[j] = name'[k]
               PROVE  ~alone'[j]
    BY DEF OverlapIsSeen
  <2>1. CASE j = h
    <3>1. alone'[j] = FALSE
      BY <1>1, <1>2, <2>1 DEF Active
    <3> QED
      BY <3>1
  <2>2. CASE k = h
    <3>1. alone'[j] = FALSE
      BY <1>1, <1>2, <2>2 DEF Active
    <3> QED
      BY <3>1
  <2>3. CASE j # h /\ k # h
    <3>1. Active(j) /\ Active(k) /\ name[j] = name[k]
      BY <1>1, <2>3 DEF Active
    <3>2. ~alone[j]
      BY <2>3, <3>1 DEF OverlapIsSeen
    <3>3. alone'[j] = FALSE \/ alone'[j] = alone[j]
      BY <1>2, <2>3
    <3> QED
      BY <3>2, <3>3, Zenon
  <2> QED
    BY <2>1, <2>2, <2>3
<1>4. \A k \in Calls : at[k] \in {"mirror", "op", "unmirror"} => uuid'[k] = uuid[k]
  BY <1>0, SecretMirrorAssumption DEF HistoryIsKept, CallsInStage, Calls
<1>5. SoloIsCurrent'
  <2> SUFFICES ASSUME NEW k \in Calls, alone'[k], at'[k] \in {"mirror", "op", "unmirror"}
               PROVE  /\ at'[k] = "mirror" /\ secret'[k] # None =>
                            uuid'[k] \in live' /\ secretOf'[uuid'[k]] = secret'[k]
                      /\ at'[k] = "op" => uuid'[k] \in live'
                      /\ at'[k] = "unmirror" => ~Taken(name[k])'
    BY DEF SoloIsCurrent
  <2>1. k # h /\ alone[k] /\ at'[k] = at[k] /\ uuid'[k] = uuid[k] /\ name'[k] = name[k]
    <3>1. k # h
      BY <1>1
    <3>2. alone'[k] = FALSE \/ alone'[k] = alone[k]
      BY <1>2, <3>1
    <3>3. alone[k]
      BY <3>2, Zenon
    <3> QED
      BY <1>1, <1>4, <3>1, <3>3
  <2>2. Taken(name[k])' => Taken(name[k])
    <3> SUFFICES ASSUME NEW u \in live, NameOf(u)' = name'[k] PROVE NameOf(u) = name[k]
      BY <1>1 DEF Taken
    <3> QED
      BY <1>0, <2>1 DEF NameOf, HistoryIsKept, KeycloakIsSound, Known
  <2> QED
    BY <1>1, <2>1, <2>2 DEF SoloIsCurrent
<1>6. \A u \in live : NameOf(u)' = NameOf(u)
  BY <1>0 DEF NameOf, HistoryIsKept, KeycloakIsSound, Known
<1>7. SettledIsMirrored'
  <2> SUFFICES ASSUME NEW m \in Names, settled[m]
               PROVE  Mirrored(m)' \/ \E k \in Calls : Dirty(k)' /\ name'[k] = m
    BY <1>1 DEF SettledIsMirrored
  <2>1. CASE Mirrored(m)
    BY <1>1, <1>6, <2>1 DEF Mirrored, Taken
  <2>2. CASE \E k \in Calls : Dirty(k) /\ name[k] = m
    BY <1>1, <2>2 DEF Dirty
  <2> QED
    BY <2>1, <2>2 DEF SettledIsMirrored
<1> QED
  BY <1>3, <1>5, <1>7

\* A step of a call keeps the invariant: its own clientId by StepOwn, the
\* others by StepFrame.
LEMMA StepSettled ==
  ASSUME ControlInv, SettledInv, HistoryIsKept, NEW h \in Calls, StepOf(h)
  PROVE  SettledInv'
<1>0. /\ TypeOK /\ CallsInStage /\ CallsKnowTheirClient /\ KeycloakIsSound
      /\ Frame(h) /\ Own(h) /\ OverlapIsSeen /\ SoloIsCurrent /\ SettledIsMirrored
  BY StepFrame, StepOwn DEF ControlInv, SettledInv
<1>1. \A k \in Calls : Active(k)' => Active(k) /\ name'[k] = name[k] /\ alone'[k] = alone[k]
  BY <1>0 DEF Frame, Active, Stages
<1>2. OverlapIsSeen'
  BY <1>0, <1>1 DEF OverlapIsSeen
<1>3. ASSUME NEW n \in Names, n # name[h]
      PROVE  /\ \A u \in live : NameOf(u) = n => u \in live' /\ secretOf'[u] = secretOf[u] /\ NameOf(u)' = n
             /\ \A u \in live' : NameOf(u)' = n => u \in live /\ NameOf(u) = n
  BY <1>0, <1>3, SecretMirrorAssumption DEF Frame, KeycloakIsSound, NameOf, Calls
<1>4. SoloIsCurrent'
  <2> SUFFICES ASSUME NEW k \in Calls, alone'[k], at'[k] \in {"mirror", "op", "unmirror"}
               PROVE  /\ at'[k] = "mirror" /\ secret'[k] # None =>
                            uuid'[k] \in live' /\ secretOf'[uuid'[k]] = secret'[k]
                      /\ at'[k] = "op" => uuid'[k] \in live'
                      /\ at'[k] = "unmirror" => ~Taken(name[k])'
    BY DEF SoloIsCurrent
  <2>1. CASE k = h
    BY <1>0, <2>1 DEF Own
  <2>2. CASE k # h
    <3>1. /\ at'[k] = at[k] /\ alone[k] /\ secret'[k] = secret[k] /\ uuid'[k] = uuid[k] /\ name'[k] = name[k]
          /\ Active(k) /\ Active(h) /\ name[k] \in Names
      BY <1>0, <2>2 DEF Frame, Active, Stages, CallsInStage
    <3>2. name[k] # name[h]
      BY <1>0, <2>2, <3>1 DEF OverlapIsSeen
    <3>3. at[k] \in {"mirror", "op"} => uuid[k] \in Creators /\ NameOf(uuid[k]) = name[k]
      BY <1>0, <3>1, SecretMirrorAssumption DEF CallsInStage, CallsKnowTheirClient, NameOf, Calls, PerUuid
    <3> QED
      BY <1>0, <1>3, <3>1, <3>2, <3>3 DEF SoloIsCurrent, Taken
  <2> QED
    BY <2>1, <2>2
<1>5. SettledIsMirrored'
  <2> SUFFICES ASSUME NEW n \in Names, settled'[n]
               PROVE  Mirrored(n)' \/ \E k \in Calls : Dirty(k)' /\ name'[k] = n
    BY DEF SettledIsMirrored
  <2>1. CASE n # name[h]
    <3>1. settled[n] /\ mirror'[n] = mirror[n]
      BY <1>0, <2>1 DEF Frame
    <3>2. CASE Mirrored(n)
      BY <1>3, <2>1, <3>1, <3>2 DEF Mirrored, Taken
    <3>3. CASE \E k \in Calls : Dirty(k) /\ name[k] = n
      BY <1>0, <2>1, <3>3 DEF Frame, Dirty
    <3> QED
      BY <1>0, <3>1, <3>2, <3>3 DEF SettledIsMirrored
  <2>2. CASE n = name[h]
    <3>1. CASE Dirty(h)'
      BY <1>0, <2>2, <3>1 DEF Frame
    <3>2. CASE Mirrored(name[h])'
      BY <1>0, <2>2, <3>2 DEF Frame
    <3>3. CASE ~Dirty(h) /\ UNCHANGED <<live, secretOf, mirror, settled>>
      <4>1. CASE Mirrored(n)
        BY <1>0, <3>3, <4>1 DEF Mirrored, Taken, NameOf, Frame
      <4>2. CASE \E k \in Calls : Dirty(k) /\ name[k] = n
        BY <1>0, <3>3, <4>2 DEF Frame, Dirty
      <4> QED
        BY <1>0, <3>3, <4>1, <4>2 DEF SettledIsMirrored
    <3> QED
      BY <1>0, <2>2, <3>1, <3>2, <3>3 DEF Own
  <2> QED
    BY <2>1, <2>2
<1> QED
  BY <1>2, <1>4, <1>5 DEF SettledInv

\* At the start every clientId but the built-in one is settled, and has no
\* client and no entry.
LEMMA SettledInit == Init => SettledInv
<1> SUFFICES ASSUME Init PROVE SettledInv
  OBVIOUS
<1>1. OverlapIsSeen /\ SoloIsCurrent
  BY DEF Init, OverlapIsSeen, SoloIsCurrent, Active, Stages
<1>2. \A n \in Names : settled[n] => Mirrored(n)
  BY SecretMirrorAssumption DEF Init, Mirrored, Taken, NameOf
<1> QED
  BY <1>1, <1>2 DEF SettledInv, SettledIsMirrored

\* No step breaks it: a beginning marks whatever it overlaps, and then every
\* step is a call's own.
LEMMA SettledNext == ControlInv /\ SettledInv /\ [Next]_vars => SettledInv'
<1> SUFFICES ASSUME ControlInv, SettledInv, [Next]_vars PROVE SettledInv'
  OBVIOUS
<1>0. HistoryIsKept /\ TypeOK
  BY HistoryNext DEF ControlInv
<1>1. ASSUME NEW c \in Creators, NEW n \in Names, BeginCreate(c, n) PROVE SettledInv'
  BY <1>0, <1>1, BeginSettled DEF BeginCreate, Calls
<1>2. ASSUME NEW h \in PerUuid, NEW u \in Uuids, BeginOn(h, u) PROVE SettledInv'
  <2>1. PICK n \in Names \cup {NoName}, stage \in {"post", "look", "recheck"} : Begin(h, n, stage)
    BY <1>0, <1>2, SecretMirrorAssumption DEF BeginOn, NameOf, TypeOK, Known, Calls, Uuids
  <2>2. h \in Calls
    BY DEF Calls
  <2> QED
    BY <1>0, <2>1, <2>2, BeginSettled
<1>3. ASSUME NEW h \in Calls, StepOf(h) PROVE SettledInv'
  BY <1>0, <1>3, StepSettled
<1>4. CASE UNCHANGED vars
  BY <1>4 DEF vars, SettledInv, OverlapIsSeen, SoloIsCurrent, SettledIsMirrored, Active, Dirty, Mirrored, Taken, NameOf
<1>5. CASE Next
  BY <1>1, <1>2, <1>3, <1>5 DEF Next, StepOf, Calls
<1> QED
  BY <1>4, <1>5

----------------------------------------------------------------------------
\* Keycloak, OpenBao and the calls stay what they are typed to be.
THEOREM TypeCorrect == Spec => []TypeOK
<1>1. ControlInv => TypeOK
  BY DEF ControlInv
<1> QED
  BY ControlInit, ControlNext, <1>1, PTL DEF Spec

\* However calls overlap and fail, the mirror pairs a secret with the client it
\* was issued to (the write-through of admin/main.py).
THEOREM Paired == Spec => []EntriesArePaired
<1>1. ControlInv /\ PairedInv => EntriesArePaired
  BY SecretMirrorAssumption DEF ControlInv, PairedInv, EntriesArePaired, NameOf, Calls, Known
<1> QED
  BY ControlInit, ControlNext, PairedInit, PairedNext, <1>1, PTL DEF Spec

\* No call reaches the client this UI does not manage (_is_partner_client).
THEOREM Untouched == Spec => []BuiltinUntouched
<1>1. ControlInv /\ PairedInv => BuiltinUntouched
  <2> SUFFICES ASSUME ControlInv, PairedInv PROVE BuiltinUntouched
    OBVIOUS
  <2>1. mirror[BuiltinName] = None
    BY SecretMirrorAssumption DEF ControlInv, PairedInv, CallsKnowTheirClient, Known, Calls
  <2> QED
    BY <2>1 DEF ControlInv, KeycloakIsSound, BuiltinUntouched
<1> QED
  BY ControlInit, ControlNext, PairedInit, PairedNext, <1>1, PTL DEF Spec

\* A mirror that differs from Keycloak is the trace of a failure or of two
\* overlapping calls, for any number of calls and clientIds.
THEOREM StaleIsTold == Spec => []StaleNeedsTrouble
<1>1. SettledInv => StaleNeedsTrouble
  BY DEF SettledInv, SettledIsMirrored, StaleNeedsTrouble, Dirty, Active, Stages
<1> QED
  BY ControlInit, ControlNext, SettledInit, SettledNext, <1>1, PTL DEF Spec
=============================================================================
