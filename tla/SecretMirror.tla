---------------------------- MODULE SecretMirror ----------------------------
(***************************************************************************)
(* The admin UI's partner clients (admin/main.py, keycloak_client.py) and  *)
(* the copy of each client's secret it keeps in OpenBao                    *)
(* (openbao_client.py). Keycloak owns the clients and their secrets; the   *)
(* UI writes every secret it creates, reveals or regenerates through to    *)
(* the mirror and removes the entry of a client it deletes.                *)
(*                                                                         *)
(* A call is one administrator's POST. Every request to Keycloak and to    *)
(* OpenBao is a step of its own, and each may fail before it is applied or *)
(* lose its answer after. The handlers run in the thread pool, so calls    *)
(* interleave, except that creating a client is `async` and blocks the     *)
(* event loop: no call begins while it runs.                               *)
(*                                                                         *)
(* A client is named by the call that created it, and a secret by the call *)
(* that made Keycloak issue it.                                            *)
(***************************************************************************)
EXTENDS Integers, FiniteSets

CONSTANTS Names,          \* the clientIds administrators type
          NoName,
          BuiltinName,    \* the clientId of a client this UI does not manage
          Builtin,        \* its uuid, and its secret
          Creators, Revealers, Regenerators, Deleters, Togglers,
          None            \* no uuid, no secret, no mirror entry

Issuers == Creators \cup Regenerators
PerUuid == Revealers \cup Regenerators \cup Deleters \cup Togglers
Calls   == Creators \cup PerUuid
Uuids   == Creators \cup {Builtin}
Secrets == Issuers \cup {Builtin}

ASSUME SecretMirrorAssumption ==
  /\ BuiltinName \in Names
  /\ NoName \notin Names
  /\ Builtin \notin Calls
  /\ None \notin Calls \cup {Builtin}
  /\ Creators \cap PerUuid = {}
  /\ Revealers \cap (Regenerators \cup Deleters \cup Togglers) = {}
  /\ Regenerators \cap (Deleters \cup Togglers) = {}
  /\ Deleters \cap Togglers = {}

VARIABLES
  live,       \* Keycloak: the clients that exist
  secretOf,   \* Keycloak: each client's current secret
  enabled,    \* Keycloak: the clients that are enabled
  mirror,     \* OpenBao: tier2-clients/<clientId>
  at,         \* where each call stands
  name,       \* the clientId each call is about
  uuid,       \* the client each call is about
  secret,     \* the secret each call holds for its write-through
  alone,      \* history: no other call on the same clientId overlapped it
  settled     \* history: the last change of a clientId met no trouble

vars == <<live, secretOf, enabled, mirror, at, name, uuid, secret, alone, settled>>
keycloak == <<live, secretOf, enabled>>

Stages == {"post", "fetch", "secret", "look", "recheck", "op", "mirror", "unmirror"}

NameOf(u) == IF u = Builtin THEN BuiltinName ELSE name[u]
Known     == {Builtin} \cup {c \in Creators : uuid[c] = c}
Active(h) == at[h] \in Stages

Init ==
  /\ live = {Builtin}
  /\ secretOf = [u \in Uuids |-> IF u = Builtin THEN Builtin ELSE None]
  /\ enabled = {Builtin}
  /\ mirror = [n \in Names |-> None]
  /\ at = [h \in Calls |-> "idle"]
  /\ name = [h \in Calls |-> NoName]
  /\ uuid = [h \in Calls |-> None]
  /\ secret = [h \in Calls |-> None]
  /\ alone = [h \in Calls |-> TRUE]
  /\ settled = [n \in Names |-> n # BuiltinName]

----------------------------------------------------------------------------
\* The call begins, and overlaps every call on the same clientId under way.
Begin(h, n, stage) ==
  LET others == {k \in Calls : Active(k) /\ name[k] = n} IN
  /\ at[h] = "idle"
  /\ \A c \in Creators : ~Active(c)
  /\ at' = [at EXCEPT ![h] = stage]
  /\ name' = [name EXCEPT ![h] = n]
  /\ alone' = [k \in Calls |-> IF k \in others \/ (k = h /\ others # {})
                               THEN FALSE ELSE alone[k]]
  /\ UNCHANGED <<keycloak, mirror, secret, settled>>

Move(h, stage) == /\ at' = [at EXCEPT ![h] = stage]
                  /\ UNCHANGED <<name, alone, settled>>

Goto(h, stage) == Move(h, stage) /\ UNCHANGED secret

\* The call is answered, and what it held is gone.
Answer(h) == /\ at' = [at EXCEPT ![h] = "answered"]
             /\ alone' = [alone EXCEPT ![h] = TRUE]
             /\ secret' = [secret EXCEPT ![h] = None]
             /\ UNCHANGED name

\* Answered having changed nothing: an error page, 404, 409 or, for enable
\* and disable, a redirect.
Leave(h) == Answer(h) /\ UNCHANGED settled

\* Answered after it changed Keycloak or the mirror, or may have: `good` when
\* every request it made was applied and answered.
Finish(h, good) ==
  /\ Answer(h)
  /\ settled' = [settled EXCEPT ![name[h]] = good /\ alone[h]]

BeginCreate(c, n) ==
  /\ Begin(c, n, "post")
  /\ UNCHANGED uuid

\* Reveal and regenerate fetch the client and call a function that fetches it
\* again; delete and enable/disable leave the fetch to the function.
BeginOn(h, u) ==
  /\ u \in Known
  /\ Begin(h, NameOf(u), IF h \in Revealers \cup Regenerators THEN "look" ELSE "recheck")
  /\ uuid' = [uuid EXCEPT ![h] = u]

\* Mutant: whatever exists under that uuid is a partner client.
IsPartnerAny(u) == u \in live

\* get_client: the client exists and has a partner client's shape.
IsPartner(u) == u \in live /\ u # Builtin

GetClient(h) ==
  /\ at[h] \in {"look", "recheck"}
  /\ \/ Leave(h)   \* 404 when it is not one, or Keycloak fails
     \/ IsPartner(uuid[h]) /\ Goto(h, IF at[h] = "look" THEN "recheck" ELSE "op")
  /\ UNCHANGED <<keycloak, mirror, uuid>>

Taken(n) == \E u \in live : NameOf(u) = n

PostClient(c) ==
  /\ at[c] = "post"
  /\ \/ /\ Leave(c)   \* 409 when the clientId is taken, or Keycloak fails
        /\ UNCHANGED <<keycloak, uuid>>
     \/ /\ ~Taken(name[c])
        /\ live' = live \cup {c}
        /\ secretOf' = [secretOf EXCEPT ![c] = c]
        /\ enabled' = enabled \cup {c}
        /\ uuid' = [uuid EXCEPT ![c] = c]
        /\ Goto(c, "fetch") \/ Finish(c, FALSE)
  /\ UNCHANGED mirror

\* create_client fetches the client it just made; a failure is an error page,
\* although the client exists.
FetchCreated(c) ==
  /\ at[c] = "fetch"
  /\ \/ Finish(c, FALSE)
     \/ IsPartner(uuid[c]) /\ Goto(c, "secret")
  /\ UNCHANGED <<keycloak, mirror, uuid>>

SecretRead(h) == secretOf[uuid[h]]

\* The secret of a new client: without it the call goes on.
ReadCreated(c) ==
  /\ at[c] = "secret"
  /\ \/ UNCHANGED secret
     \/ /\ uuid[c] \in live
        /\ secret' = [secret EXCEPT ![c] = SecretRead(c)]
  /\ Move(c, "mirror")
  /\ UNCHANGED <<keycloak, mirror, uuid>>

\* Mutant: the secret is fetched by clientId, not by uuid.
ReadByClientId(h) ==
  /\ h \in Revealers /\ at[h] = "op"
  /\ \E u \in live : /\ NameOf(u) = name[h]
                      /\ secret' = [secret EXCEPT ![h] = secretOf[u]]
  /\ Move(h, "mirror")
  /\ UNCHANGED <<keycloak, mirror, uuid>>

ReadSecret(h) ==
  /\ h \in Revealers /\ at[h] = "op"
  /\ \/ Leave(h)
     \/ /\ uuid[h] \in live
        /\ secret' = [secret EXCEPT ![h] = SecretRead(h)]
        /\ Move(h, "mirror")
  /\ UNCHANGED <<keycloak, mirror, uuid>>

\* Mutant: the new secret is not written through.
RegenerateUnmirrored(g) ==
  /\ g \in Regenerators /\ at[g] = "op"
  /\ uuid[g] \in live
  /\ secretOf' = [secretOf EXCEPT ![uuid[g]] = g]
  /\ Finish(g, TRUE)
  /\ UNCHANGED <<live, enabled, mirror, uuid>>

RegenerateSecret(g) ==
  /\ g \in Regenerators /\ at[g] = "op"
  /\ \/ Leave(g) /\ UNCHANGED secretOf
     \/ /\ uuid[g] \in live
        /\ secretOf' = [secretOf EXCEPT ![uuid[g]] = g]
        /\ \/ secret' = [secret EXCEPT ![g] = g] /\ Move(g, "mirror")
           \/ Finish(g, FALSE)
  /\ UNCHANGED <<live, enabled, mirror, uuid>>

\* A DELETE answered 404 counts as done.
DeleteClient(d) ==
  /\ d \in Deleters /\ at[d] = "op"
  /\ \/ Leave(d) /\ UNCHANGED <<live, enabled>>
     \/ /\ live' = live \ {uuid[d]}
        /\ enabled' = enabled \ {uuid[d]}
        /\ Goto(d, "unmirror") \/ Finish(d, FALSE)
  /\ UNCHANGED <<secretOf, mirror, uuid>>

\* The sparse PUT changes nothing else of the client.
SetEnabled(t, on) ==
  /\ t \in Togglers /\ at[t] = "op"
  /\ \/ Leave(t) /\ UNCHANGED enabled
     \/ /\ uuid[t] \in live
        /\ enabled' = IF on THEN enabled \cup {uuid[t]} ELSE enabled \ {uuid[t]}
        /\ Leave(t)
  /\ UNCHANGED <<live, secretOf, mirror, uuid>>

\* Mutant: the mirror takes what it is given, as OpenBao does.
RefusedNever(h) == FALSE

\* write_client_secret refuses a missing secret, which OpenBao would accept.
Refused(h) == secret[h] = None

WriteMirror(h) ==
  /\ at[h] = "mirror"
  /\ \/ Finish(h, FALSE) /\ UNCHANGED mirror
     \/ /\ ~Refused(h)
        /\ mirror' = [mirror EXCEPT ![name[h]] = [secret |-> secret[h], uuid |-> uuid[h]]]
        /\ Finish(h, TRUE) \/ Finish(h, FALSE)
  /\ UNCHANGED <<keycloak, uuid>>

\* The mirror's entry goes as far as OpenBao answers; nobody is told.
DropMirror(d) ==
  /\ at[d] = "unmirror"
  /\ \/ mirror' = [mirror EXCEPT ![name[d]] = None] /\ Finish(d, TRUE)
     \/ UNCHANGED mirror /\ Finish(d, FALSE)
  /\ UNCHANGED <<keycloak, uuid>>

Next ==
  \/ \E c \in Creators :
        \/ \E n \in Names : BeginCreate(c, n)
        \/ PostClient(c) \/ FetchCreated(c) \/ ReadCreated(c)
  \/ \E h \in PerUuid :
        \/ \E u \in Uuids : BeginOn(h, u)
        \/ GetClient(h) \/ ReadSecret(h) \/ RegenerateSecret(h) \/ DeleteClient(h)
        \/ \E on \in BOOLEAN : SetEnabled(h, on)
        \/ DropMirror(h)
  \/ \E h \in Calls : WriteMirror(h)

Spec == Init /\ [][Next]_vars

----------------------------------------------------------------------------
\* Every variable holds what Keycloak, OpenBao and the handlers can put there.
Entries == [secret : Secrets, uuid : Uuids]

TypeOK ==
  /\ live \subseteq Uuids /\ enabled \subseteq Uuids
  /\ secretOf \in [Uuids -> Secrets \cup {None}]
  /\ mirror \in [Names -> Entries \cup {None}]
  /\ at \in [Calls -> Stages \cup {"idle", "answered"}]
  /\ name \in [Calls -> Names \cup {NoName}]
  /\ uuid \in [Calls -> Uuids \cup {None}]
  /\ secret \in [Calls -> Secrets \cup {None}]
  /\ alone \in [Calls -> BOOLEAN]
  /\ settled \in [Names -> BOOLEAN]

\* The mirror holds what Keycloak would answer now: the secret of the client of
\* that name, or nothing when there is none.
Mirrored(n) ==
  \/ mirror[n] = None /\ ~Taken(n)
  \/ \E u \in live : /\ NameOf(u) = n
                     /\ mirror[n] = [secret |-> secretOf[u], uuid |-> u]

\* A clientId whose last change ran alone and had every answer, and of which no
\* call is under way, is mirrored exactly: a stale entry is always the trace of
\* an error page, a warning, a failed removal or two overlapping calls
\* (admin/main.py, the write-through of create, reveal, regenerate and delete).
StaleNeedsTrouble ==
  \A n \in Names :
     settled[n] /\ (\A h \in Calls : name[h] = n => ~Active(h)) => Mirrored(n)

\* However calls overlap and fail, an entry pairs a secret with the client that
\* Keycloak issued it to, under that client's own clientId: never a secret of
\* a deleted namesake under a new client's uuid (the write-through takes the
\* name from its own get_client and the uuid from the URL).
IssuedTo(s) == IF s \in Regenerators THEN uuid[s] ELSE s

EntriesArePaired ==
  \A n \in Names : mirror[n] # None =>
     /\ IssuedTo(mirror[n].secret) = mirror[n].uuid
     /\ NameOf(mirror[n].uuid) = n

\* The client this UI does not manage is never touched, whatever uuid an
\* administrator calls with: it is there, enabled, with its secret, and nothing
\* is mirrored under its clientId (_is_partner_client, re-checked on every fetch).
BuiltinUntouched ==
  /\ Builtin \in live \cap enabled
  /\ secretOf[Builtin] = Builtin
  /\ mirror[BuiltinName] = None
=============================================================================
