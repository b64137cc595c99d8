----------------------------- MODULE PlatformProofs -----------------------------
(***************************************************************************)
(* What the platform services promise under every interleaving of their    *)
(* calls, proved for any number of clients, calls, faults and requests.    *)
(***************************************************************************)
EXTENDS Platform, TLAPS

--------------------------------------------------------------------------------
(* The state a step may rely on. *)

CallFields == {"rpc", "asked", "pc", "n", "tok", "id", "pathId", "given", "mask", "uid",
               "sys", "sid", "doc", "attempt", "cause", "out", "since"}

\* Collections and calls are what their names say.
Shaped ==
    /\ Total(docs, Collections)
    /\ Total(call, Callers)
    /\ \A c \in Callers : Total(call[c], CallFields)

\* A session id is drawn once: every session there is, or was, has an older one.
SessionsAreOld ==
    /\ nextSid \in Nat
    /\ \A s \in DOMAIN sessions \cup ended : s \in Nat /\ s < nextSid

DeletedUsers == {i \in DOMAIN docs["users"] : docs["users"][i].deleted}

\* What a call that mints tokens knows: it is a refresh on its way through the
\* steps of one, what was refused when it began is refused now, and its checks
\* came after that.
MintsHonestly(k) ==
    /\ k.rpc = "RefreshToken" => k.pc \in {"verify", "session", "user", "revoke"}
    /\ k.since.spent \subseteq spent
    /\ k.since.deleted \subseteq DeletedUsers
    /\ Blacklist /\ k.rpc = "RefreshToken" /\ k.pc # "verify" => k.tok \notin k.since.spent
    /\ k.pc \in {"save", "member", "revoke"} => k.uid \notin k.since.deleted

TokensInv ==
    /\ spent \subseteq blacklist
    /\ \A c \in Callers : MintsHonestly(call[c])

SessionInv == SessionsAreOld /\ EndedSessionsStayEnded

--------------------------------------------------------------------------------
(* The steps of a call. *)

\* What an invariant below may read beside the calls.
watched == <<docs, counters, sessions, nextSid, ended, blacklist, spent, touched>>

\* A step that answers its client and writes nothing.
Ends(c) == (\E out : Answer(c, out)) /\ UNCHANGED watched

\* What is not written anywhere else: the steps that read or refuse.
LEMMA ReadersEnd ==
  ASSUME NEW c,
         \/ RejectUser(c) \/ GetUser(c) \/ ListUsers(c)
         \/ ListRepositories(c) \/ ProbeSourceRepository(c) \/ PushNothing(c)
         \/ RejectArticle(c) \/ ReadArticles(c)
         \/ LoadMigration(c) \/ LoadSummary(c) \/ PassOn(c)
  PROVE  Ends(c)
<1> USE DEF Ends, watched, storeVars, sessionVars, tokenVars
<1>1. CASE RejectUser(c)
  BY <1>1 DEF RejectUser
<1>2. CASE GetUser(c)
  BY <1>2 DEF GetUser
<1>3. CASE ListUsers(c)
  BY <1>3 DEF ListUsers
<1>4. CASE ListRepositories(c)
  BY <1>4 DEF ListRepositories
<1>5. CASE ProbeSourceRepository(c)
  BY <1>5 DEF ProbeSourceRepository
<1>6. CASE PushNothing(c)
  BY <1>6 DEF PushNothing
<1>7. CASE RejectArticle(c)
  BY <1>7 DEF RejectArticle
<1>8. CASE ReadArticles(c)
  BY <1>8 DEF ReadArticles
<1>9. CASE LoadMigration(c)
  BY <1>9 DEF LoadMigration
<1>10. CASE LoadSummary(c)
  BY <1>10 DEF LoadSummary
<1>11. CASE PassOn(c)
  BY <1>11 DEF PassOn
<1> QED
  BY <1>1, <1>2, <1>3, <1>4, <1>5, <1>6, <1>7, <1>8, <1>9, <1>10, <1>11

\* A push answers as well, whatever it did to the target.
LEMMA PushEnds ==
  ASSUME NEW c, PushResult(c)
  PROVE  Ends(c)
  BY DEF PushResult, Ends, watched, storeVars, sessionVars, tokenVars

--------------------------------------------------------------------------------
(* Sessions. *)

\* Only a log-in, a log-out and the time to live touch the sessions.
LEMMA SessionWriters ==
  ASSUME NEW c, Begin(c) \/ IdentityStep(c) \/ RepositoryStep(c) \/ ArticlesStep(c)
         \/ LoadMigration(c) \/ LoadSummary(c) \/ PassOn(c)
  PROVE  UNCHANGED <<sessions, nextSid, ended>> \/ SaveSession(c) \/ LogoutDelete(c)
<1> USE DEF sessionVars
<1>1. CASE Begin(c)
  BY <1>1 DEF Begin
<1>2. CASE IdentityStep(c)
  BY <1>2, ReadersEnd DEF IdentityStep, Ends, watched, VerifyToken, LoadSession, UserIdentifier,
     GenerateIdentifier, InsertUser, UpdateUserRead, UpdateUserWrite, DeleteUser,
     ReadCredentials, ListSession, RefreshUser, RefreshRevoke, LogoutUnlist, LogoutBan
<1>3. CASE RepositoryStep(c)
  BY <1>3, ReadersEnd, PushEnds DEF RepositoryStep, Ends, watched, CreateRepository, LoadRepository,
     ReadRepository, UpdateRepositoryWrite, DeleteRepository, TestConnectionProbe,
     ListBranchesProbe, PersistProbe
<1>4. CASE ArticlesStep(c)
  BY <1>4, ReadersEnd DEF ArticlesStep, Ends, watched, ArticleIdentifier, GenerateIdentifier,
     InsertArticle, LoadArticle, UpdateArticleRead, UpdateArticleWrite, DeleteArticle
<1>5. CASE LoadMigration(c) \/ LoadSummary(c) \/ PassOn(c)
  BY <1>5, ReadersEnd DEF Ends, watched
<1> QED
  BY <1>1, <1>2, <1>3, <1>4, <1>5

\* Writing an entry adds at most its key; removing one takes only its key.
LEMMA PutRemove ==
  ASSUME NEW f, NEW k, NEW v
  PROVE  /\ DOMAIN Put(f, k, v) = DOMAIN f \cup {k}
         /\ DOMAIN Remove(f, k) = DOMAIN f \ {k}
         /\ Put(f, k, v)[k] = v
         /\ \A i \in DOMAIN f : i # k => Put(f, k, v)[i] = f[i]
  BY DEF Put, Remove

\* The sessions of the first state are older than the next one, and none has ended.
LEMMA InitSessions == Init => SessionInv
<1> SUFFICES ASSUME Init PROVE SessionInv
  OBVIOUS
<1>1. DOMAIN sessions = {1, 2}
  BY DEF Init
<1> QED
  BY <1>1 DEF Init, SessionInv, SessionsAreOld, EndedSessionsStayEnded

\* No step brings an ended session back.
LEMMA NextSessions == SessionInv /\ [Next]_vars => SessionInv'
<1> SUFFICES ASSUME SessionInv, [Next]_vars PROVE SessionInv'
  OBVIOUS
<1> USE DEF SessionInv, SessionsAreOld, EndedSessionsStayEnded
<1>1. CASE UNCHANGED <<sessions, nextSid, ended>>
  BY <1>1
<1>2. ASSUME NEW c \in Callers, SaveSession(c)
      PROVE  SessionInv'
  <2>1. CASE UNCHANGED <<sessions, nextSid>>
    BY <1>1, <1>2, <2>1 DEF SaveSession
  <2>2. CASE /\ sessions' = Put(sessions, nextSid, [user |-> call[c].uid, system |-> call[c].sys])
             /\ nextSid' = nextSid + 1
    <3>1. DOMAIN sessions' = DOMAIN sessions \cup {nextSid} /\ ended' = ended
      BY <1>2, <2>2, PutRemove DEF SaveSession
    <3>2. nextSid \notin ended
      OBVIOUS
    <3> QED
      BY <2>2, <3>1, <3>2
  <2> QED
    BY <1>2, <2>1, <2>2 DEF SaveSession
<1>3. ASSUME NEW s \in DOMAIN sessions, sessions' = Remove(sessions, s),
             ended' = ended \cup {s}, nextSid' = nextSid
      PROVE  SessionInv'
  <2>1. DOMAIN sessions' = DOMAIN sessions \ {s}
    BY <1>3, PutRemove
  <2> QED
    BY <1>3, <2>1
<1>4. ASSUME NEW c \in Callers, LogoutDelete(c)
      PROVE  SessionInv'
  BY <1>1, <1>3, <1>4 DEF LogoutDelete
<1>5. CASE \E s \in DOMAIN sessions : SessionExpires(s)
  BY <1>3, <1>5 DEF SessionExpires
<1>6. CASE (\E tok \in wallet : TokenExpires(tok)) \/ (\E t \in Targets : ForeignCommit(t))
           \/ UNCHANGED vars
  BY <1>1, <1>6 DEF TokenExpires, ForeignCommit, sessionVars, vars
<1> QED
  BY <1>1, <1>2, <1>4, <1>5, <1>6, SessionWriters DEF Next

\* A session that was logged out or ran out never comes back, whatever log-ins,
\* refreshes and log-outs were under way when it ended: SaveSession draws a fresh
\* id, and no other step of any service writes a session.
THEOREM EndedSessionsAreGone == Spec => []EndedSessionsStayEnded
<1>1. SessionInv => EndedSessionsStayEnded
  BY DEF SessionInv
<1> QED
  BY <1>1, InitSessions, NextSessions, PTL DEF Spec

--------------------------------------------------------------------------------
(* Documents. *)

\* A write meets a live document or makes a new one.
Lawful(coll, id) == Live(coll, id) \/ id \notin DOMAIN docs[coll]
LawfulWrite == \E coll \in Collections : \E id, d : Lawful(coll, id) /\ Write(coll, id, d)

\* Every step of every service that writes a document does so lawfully: the
\* filter on delete_time and the unique index on identifier are in every write.
LEMMA DocumentWriters ==
  ASSUME NEW c, Begin(c) \/ IdentityStep(c) \/ RepositoryStep(c) \/ ArticlesStep(c)
         \/ LoadMigration(c) \/ LoadSummary(c) \/ PassOn(c)
  PROVE  UNCHANGED docs \/ LawfulWrite
<1> USE DEF LawfulWrite, Lawful, Collections, storeVars
<1>1. CASE Begin(c)
  BY <1>1 DEF Begin
<1>2. CASE IdentityStep(c)
  <2>1. CASE InsertUser(c)
    BY <2>1 DEF InsertUser, DuplicateKey
  <2>2. CASE UpdateUserWrite(c)
    BY <2>2 DEF UpdateUserWrite
  <2>3. CASE DeleteUser(c)
    BY <2>3 DEF DeleteUser
  <2> QED
    BY <1>2, <2>1, <2>2, <2>3, ReadersEnd DEF IdentityStep, Ends, watched, VerifyToken, LoadSession,
       UserIdentifier, GenerateIdentifier, UpdateUserRead, ReadCredentials, SaveSession,
       ListSession, RefreshUser, RefreshRevoke, LogoutDelete, LogoutUnlist, LogoutBan
<1>3. CASE RepositoryStep(c)
  <2>1. CASE CreateRepository(c)
    BY <2>1 DEF CreateRepository, DuplicateKey
  <2>2. CASE UpdateRepositoryWrite(c)
    BY <2>2 DEF UpdateRepositoryWrite, Updatable
  <2>3. CASE DeleteRepository(c)
    BY <2>3 DEF DeleteRepository
  <2>4. CASE PersistProbe(c)
    BY <2>4 DEF PersistProbe, Updatable
  <2> QED
    BY <1>3, <2>1, <2>2, <2>3, <2>4, ReadersEnd, PushEnds DEF RepositoryStep, Ends, watched,
       LoadRepository, ReadRepository, TestConnectionProbe, ListBranchesProbe
<1>4. CASE ArticlesStep(c)
  <2>1. CASE InsertArticle(c)
    BY <2>1 DEF InsertArticle, DuplicateKey
  <2>2. CASE UpdateArticleWrite(c)
    BY <2>2 DEF UpdateArticleWrite
  <2>3. CASE DeleteArticle(c)
    BY <2>3 DEF DeleteArticle
  <2> QED
    BY <1>4, <2>1, <2>2, <2>3, ReadersEnd DEF ArticlesStep, Ends, watched, ArticleIdentifier,
       GenerateIdentifier, LoadArticle, UpdateArticleRead
<1>5. CASE LoadMigration(c) \/ LoadSummary(c) \/ PassOn(c)
  BY <1>5, ReadersEnd DEF Ends, watched
<1> QED
  BY <1>1, <1>2, <1>3, <1>4, <1>5

\* A lawful write leaves the deleted documents and the other collections alone.
LEMMA LawfulKeeps ==
  ASSUME Total(docs, Collections), NEW coll \in Collections, NEW id, NEW d,
         Lawful(coll, id), Write(coll, id, d)
  PROVE  /\ Total(docs', Collections)
         /\ \A l \in Collections : l # coll => docs'[l] = docs[l]
         /\ DOMAIN docs'[coll] = DOMAIN docs[coll] \cup {id}
         /\ docs'[coll][id] = d
         /\ \A i \in DOMAIN docs[coll] : i # id => docs'[coll][i] = docs[coll][i]
         /\ \A l \in Collections : \A i \in DOMAIN docs[l] :
              docs[l][i].deleted => i \in DOMAIN docs'[l] /\ docs'[l][i] = docs[l][i]
<1>1. docs' = [docs EXCEPT ![coll] = Put(docs[coll], id, d)]
  BY DEF Write
<1>2. docs'[coll] = Put(docs[coll], id, d) /\ \A l \in Collections : l # coll => docs'[l] = docs[l]
  BY <1>1 DEF Total
<1>3. Total(docs', Collections)
  BY <1>1 DEF Total
<1>4. /\ DOMAIN docs'[coll] = DOMAIN docs[coll] \cup {id}
      /\ docs'[coll][id] = d
      /\ \A i \in DOMAIN docs[coll] : i # id => docs'[coll][i] = docs[coll][i]
  BY <1>2 DEF Put
<1>5. \A i \in DOMAIN docs[coll] : docs[coll][i].deleted => i # id
  BY DEF Lawful, Live
<1> QED
  BY <1>2, <1>3, <1>4, <1>5

\* The deleted documents are those they were.
DeletedKept ==
    \A coll \in Collections : \A i \in DOMAIN docs[coll] :
       docs[coll][i].deleted => i \in DOMAIN docs'[coll] /\ docs'[coll][i] = docs[coll][i]

\* Every step keeps the documents a function of the collections, and the deleted
\* ones as they are.
LEMMA NextDocuments ==
  ASSUME Total(docs, Collections), [Next]_vars
  PROVE  Total(docs', Collections) /\ DeletedKept
<1>1. CASE UNCHANGED docs
  BY <1>1 DEF Total, DeletedKept
<1>2. CASE LawfulWrite
  BY <1>2, LawfulKeeps DEF LawfulWrite, DeletedKept
<1>3. CASE (\E s \in DOMAIN sessions : SessionExpires(s)) \/ (\E tok \in wallet : TokenExpires(tok))
           \/ (\E t \in Targets : ForeignCommit(t)) \/ UNCHANGED vars
  BY <1>1, <1>3 DEF SessionExpires, TokenExpires, ForeignCommit, storeVars, vars
<1> QED
  BY <1>1, <1>2, <1>3, DocumentWriters DEF Next

\* The initial documents.
LEMMA InitDocuments == Init => Total(docs, Collections)
  BY DEF Init, Total, Collections

\* Once deleted, a document of any collection is never written again: not by an
\* update that read it before, and not by a probe that waited for a git server.
THEOREM DeletedDocumentsRest == Spec => DeletedStayDeleted
<1>1. Total(docs, Collections) /\ [Next]_vars => Total(docs, Collections)'
  BY NextDocuments
<1>2. Total(docs, Collections) /\ [Next]_vars => [DeletedKept]_vars
  BY NextDocuments
<1> QED
  BY <1>1, <1>2, InitDocuments, PTL DEF Spec, DeletedStayDeleted, DeletedKept

--------------------------------------------------------------------------------
(* Calls. *)

\* The step replaces the call of its client by a well-formed one.
Replaces(c) == \E k : Total(k, CallFields) /\ call' = [call EXCEPT ![c] = k]

\* The call goes on with step pc; beside that only the fields in F change.
MovesTo(c, pc, F) ==
    /\ Replaces(c)
    /\ call'[c].pc = pc
    /\ \A f \in CallFields \ ({"pc"} \cup F) : call'[c][f] = call[c][f]

Answering(c) == \E out : Answer(c, out)

\* An answer is a well-formed, idle call, and the other calls are as they were.
LEMMA AnsweringEffect ==
  ASSUME Shaped, NEW c \in Callers, Answering(c)
  PROVE  /\ Replaces(c)
         /\ call'[c].pc = "idle" /\ call'[c].rpc = "none"
         /\ call'[c].id = 0 /\ call'[c].pathId = 0
         /\ call'[c].since = [spent |-> {}, deleted |-> {}]
<1>1. PICK out : Answer(c, out)
  BY DEF Answering
<1>2. Total(Answered(out), CallFields)
  BY DEF Answered, IdleCall, Total, CallFields
<1>3. call' = [call EXCEPT ![c] = Answered(out)] /\ call'[c] = Answered(out)
  BY <1>1 DEF Answer, Shaped, Total
<1>4. /\ Answered(out).pc = "idle" /\ Answered(out).rpc = "none"
      /\ Answered(out).id = 0 /\ Answered(out).pathId = 0
      /\ Answered(out).since = [spent |-> {}, deleted |-> {}]
  BY DEF Answered, IdleCall
<1> QED
  BY <1>2, <1>3, <1>4 DEF Replaces

\* The calls of the other clients are as they were, and all are well-formed.
LEMMA ReplacesEffect ==
  ASSUME Shaped, NEW c \in Callers, Replaces(c)
  PROVE  /\ Total(call', Callers)
         /\ \A d \in Callers : Total(call'[d], CallFields)
         /\ \A d \in Callers : d # c => call'[d] = call[d]
  BY DEF Shaped, Replaces, Total

\* A replaced call moves where its pc says.
LEMMA ReplacementMoves ==
  ASSUME Shaped, NEW c \in Callers, NEW k, NEW F,
         Total(k, CallFields), call' = [call EXCEPT ![c] = k],
         \A f \in CallFields \ ({"pc"} \cup F) : k[f] = call[c][f]
  PROVE  MovesTo(c, k.pc, F)
<1>1. call'[c] = k
  BY DEF Shaped, Total
<1> QED
  BY <1>1 DEF MovesTo, Replaces

\* A call that goes on with another step keeps all its fields.
LEMMA GotoMoves ==
  ASSUME Shaped, NEW c \in Callers, NEW pc, Goto(c, pc)
  PROVE  MovesTo(c, pc, {})
<1> DEFINE k == [call[c] EXCEPT !.pc = pc]
<1>1. Total(call[c], CallFields) /\ "pc" \in CallFields
  BY DEF Shaped, CallFields
<1>2. Total(k, CallFields) /\ k.pc = pc /\ \A f \in CallFields \ {"pc"} : k[f] = call[c][f]
  BY <1>1 DEF Total
<1>3. call' = [call EXCEPT ![c] = k]
  BY DEF Goto
<1> QED
  BY <1>2, <1>3, ReplacementMoves

\* The steps after which a call is over.
LEMMA LastSteps ==
  ASSUME NEW c,
         \/ InsertUser(c) \/ UpdateUserWrite(c) \/ DeleteUser(c)
         \/ ListSession(c) \/ RefreshRevoke(c) \/ LogoutBan(c)
         \/ CreateRepository(c) \/ UpdateRepositoryWrite(c) \/ DeleteRepository(c)
         \/ PersistProbe(c)
         \/ InsertArticle(c) \/ UpdateArticleWrite(c) \/ DeleteArticle(c)
  PROVE  Answering(c)
  BY DEF Answering, InsertUser, UpdateUserWrite, DeleteUser, ListSession, RefreshRevoke,
         LogoutBan, CreateRepository, UpdateRepositoryWrite, DeleteRepository, PersistProbe,
         InsertArticle, UpdateArticleWrite, DeleteArticle

\* A token that passes ParseToken takes the call on to its session.
LEMMA VerifyMoves ==
  ASSUME Shaped, NEW c \in Callers, VerifyToken(c)
  PROVE  \/ Answering(c)
         \/ MovesTo(c, "session", {}) /\ Verify(call[c].tok, call[c].rpc = "RefreshToken")
  BY GotoMoves DEF VerifyToken, Answering

\* A session that is found tells the call who asks.
LEMMA SessionMoves ==
  ASSUME Shaped, NEW c \in Callers, LoadSession(c)
  PROVE  Answering(c) \/ MovesTo(c, AfterSession(call[c].rpc), {"uid", "sys"})
<1> DEFINE s == call[c].tok.sid
           k == [call[c] EXCEPT !.uid = sessions[s].user, !.sys = sessions[s].system,
                                !.pc = AfterSession(call[c].rpc)]
<1>1. Total(call[c], CallFields)
  BY DEF Shaped
<1>2. /\ Total(k, CallFields) /\ k.pc = AfterSession(call[c].rpc)
      /\ \A f \in CallFields \ ({"pc"} \cup {"uid", "sys"}) : k[f] = call[c][f]
  BY <1>1 DEF Total, CallFields
<1>3. Answering(c) \/ call' = [call EXCEPT ![c] = k]
  BY DEF LoadSession, Answering
<1> HIDE DEF k
<1> QED
  BY <1>2, <1>3, ReplacementMoves

\* UpdateUser works on the copy that it read.
LEMMA UserReadMoves ==
  ASSUME Shaped, NEW c \in Callers, UpdateUserRead(c)
  PROVE  Answering(c) \/ MovesTo(c, "write", {"doc"})
<1> DEFINE d == ApplyMask(docs["users"][call[c].id], call[c].given, UserMask(call[c].mask))
           k == [call[c] EXCEPT !.doc = d, !.pc = "write"]
<1>1. Total(call[c], CallFields)
  BY DEF Shaped
<1>2. /\ Total(k, CallFields) /\ k.pc = "write"
      /\ \A f \in CallFields \ ({"pc"} \cup {"doc"}) : k[f] = call[c][f]
  BY <1>1 DEF Total, CallFields
<1>3. Answering(c) \/ call' = [call EXCEPT ![c] = k]
  BY DEF UpdateUserRead, Answering
<1> HIDE DEF k
<1> QED
  BY <1>2, <1>3, ReplacementMoves

\* SignIn goes on only with a user that is live when it reads it.
LEMMA CredentialsMove ==
  ASSUME Shaped, NEW c \in Callers, ReadCredentials(c)
  PROVE  \/ Answering(c)
         \/ MovesTo(c, "save", {"uid", "sys"}) /\ Live("users", call'[c].uid)
<1> DEFINE found == {i \in DOMAIN docs["users"] :
                       Live("users", i) /\ docs["users"][i].email = call[c].given.email}
           k(i) == [call[c] EXCEPT !.uid = i, !.sys = docs["users"][i].system_user, !.pc = "save"]
<1>1. Total(call[c], CallFields)
  BY DEF Shaped
<1>2. ASSUME NEW i
      PROVE  /\ Total(k(i), CallFields) /\ k(i).pc = "save" /\ k(i).uid = i
             /\ \A f \in CallFields \ ({"pc"} \cup {"uid", "sys"}) : k(i)[f] = call[c][f]
  BY <1>1 DEF Total, CallFields
<1>3. CASE ~Answering(c)
  <2> DEFINE i == CHOOSE i \in found : TRUE
  <2>1. found # {} /\ call' = [call EXCEPT ![c] = k(i)]
    BY <1>3 DEF ReadCredentials, Answering
  <2>2. i \in found
    BY <2>1
  <2>3. Live("users", i)
    BY <2>2
  <2> HIDE DEF i
  <2>4. call'[c] = k(i)
    BY <2>1 DEF Shaped, Total
  <2>5. /\ Total(k(i), CallFields) /\ k(i).pc = "save" /\ k(i).uid = i
        /\ \A f \in CallFields \ ({"pc"} \cup {"uid", "sys"}) : k(i)[f] = call[c][f]
    BY <1>2
  <2> HIDE DEF k
  <2>6. MovesTo(c, k(i).pc, {"uid", "sys"})
    BY <2>1, <2>5, ReplacementMoves
  <2> QED
    BY <2>3, <2>4, <2>5, <2>6
<1> QED
  BY <1>3

\* A saved session gives the call its new session id.
LEMMA SaveMoves ==
  ASSUME Shaped, NEW c \in Callers, SaveSession(c)
  PROVE  Answering(c) \/ MovesTo(c, "member", {"sid"})
<1> DEFINE k == [call[c] EXCEPT !.sid = nextSid, !.pc = "member"]
<1>1. Total(call[c], CallFields)
  BY DEF Shaped
<1>2. /\ Total(k, CallFields) /\ k.pc = "member"
      /\ \A f \in CallFields \ ({"pc"} \cup {"sid"}) : k[f] = call[c][f]
  BY <1>1 DEF Total, CallFields
<1>3. Answering(c) \/ call' = [call EXCEPT ![c] = k]
  BY DEF SaveSession, Answering
<1> HIDE DEF k
<1> QED
  BY <1>2, <1>3, ReplacementMoves

\* RefreshToken goes on only with a user that is live when it reads it.
LEMMA RefreshMoves ==
  ASSUME Shaped, NEW c \in Callers, RefreshUser(c)
  PROVE  \/ Answering(c)
         \/ MovesTo(c, "revoke", {}) /\ Live("users", call[c].uid)
  BY GotoMoves DEF RefreshUser, Answering

\* Logout removes the session, then its membership, then bans the token.
LEMMA LogoutMoves ==
  ASSUME Shaped, NEW c \in Callers, LogoutDelete(c) \/ LogoutUnlist(c)
  PROVE  Answering(c) \/ MovesTo(c, "unlist", {}) \/ MovesTo(c, "ban", {})
  BY GotoMoves DEF LogoutDelete, LogoutUnlist, Answering

\* A loaded repository or article takes the call on unchanged.
LEMMA LoadMoves ==
  ASSUME Shaped, NEW c \in Callers, LoadRepository(c) \/ LoadArticle(c)
  PROVE  \E pc \in {"delete", "reread", "copy"} : Answering(c) \/ MovesTo(c, pc, {})
  BY GotoMoves DEF LoadRepository, LoadArticle, Answering

\* UpdateArticle works on the copy that it read.
LEMMA ArticleReadMoves ==
  ASSUME Shaped, NEW c \in Callers, UpdateArticleRead(c)
  PROVE  Answering(c) \/ MovesTo(c, "publish", {"doc"})
<1> DEFINE d == applyArticleMask(docs["articles"][call[c].id], call[c].given, call[c].mask)
           k == [call[c] EXCEPT !.doc = d, !.pc = "publish"]
<1>1. Total(call[c], CallFields)
  BY DEF Shaped
<1>2. /\ Total(k, CallFields) /\ k.pc = "publish"
      /\ \A f \in CallFields \ ({"pc"} \cup {"doc"}) : k[f] = call[c][f]
  BY <1>1 DEF Total, CallFields
<1>3. Answering(c) \/ call' = [call EXCEPT ![c] = k]
  BY DEF UpdateArticleRead, Answering
<1> HIDE DEF k
<1> QED
  BY <1>2, <1>3, ReplacementMoves

\* The counters are numbers and never fall.
CountersOK == Total(counters, Collections) /\ \A coll \in Collections : counters[coll] \in Nat
CountersGrow == CountersOK' /\ \A coll \in Collections : counters[coll] <= counters'[coll]

\* The identifier a creation draws is above all that the counter gave before.
Draws(c, coll) ==
    /\ MovesTo(c, "insert", {"id"})
    /\ call'[c].id \in Nat /\ counters[coll] < call'[c].id
    /\ counters'[coll] = call'[c].id

\* Raising one counter.
LEMMA CounterSet ==
  ASSUME CountersOK, NEW coll \in Collections, NEW n \in Nat,
         counters' = [counters EXCEPT ![coll] = n], counters[coll] <= n
  PROVE  /\ CountersGrow /\ counters'[coll] = n
         /\ \A l \in Collections : l # coll => counters'[l] = counters[l]
  BY DEF CountersOK, CountersGrow, Total

\* Drawing an identifier: the call has one, tries again or ends.
LEMMA IdentifierMoves ==
  ASSUME Shaped, CountersOK, NEW c \in Callers, NEW coll \in Collections,
         GenerateIdentifier(c, coll)
  PROVE  /\ CountersGrow
         /\ \A l \in Collections : l # coll => counters'[l] = counters[l]
         /\ \/ Answering(c)
            \/ MovesTo(c, "increment", {})
            \/ MovesTo(c, "seed", {"attempt"})
            \/ Draws(c, coll)
<1> DEFINE drawn(id) == [call[c] EXCEPT !.id = id, !.pc = "insert"]
           again(n) == [call[c] EXCEPT !.attempt = n, !.pc = "seed"]
<1>1. Total(call[c], CallFields)
  BY DEF Shaped
<1>2. counters[coll] \in Nat
  BY DEF CountersOK
<1>8. ASSUME NEW n \in Nat, counters' = [counters EXCEPT ![coll] = n], counters[coll] <= n
      PROVE  /\ CountersGrow /\ counters'[coll] = n
             /\ \A l \in Collections : l # coll => counters'[l] = counters[l]
  BY <1>8, CounterSet
<1>9. ASSUME counters' = counters
      PROVE  /\ CountersGrow
             /\ \A l \in Collections : l # coll => counters'[l] = counters[l]
  BY <1>9 DEF CountersOK, CountersGrow, Total
<1>3. ASSUME NEW id \in Nat, counters[coll] < id,
             counters' = [counters EXCEPT ![coll] = id], call' = [call EXCEPT ![c] = drawn(id)]
      PROVE  Draws(c, coll)
  <2>1. /\ Total(drawn(id), CallFields) /\ drawn(id).pc = "insert" /\ drawn(id).id = id
        /\ \A f \in CallFields \ ({"pc"} \cup {"id"}) : drawn(id)[f] = call[c][f]
    BY <1>1 DEF Total, CallFields
  <2>2. call'[c] = drawn(id)
    BY <1>3 DEF Shaped, Total
  <2>4. counters'[coll] = id
    BY <1>3 DEF CountersOK, Total
  <2> HIDE DEF drawn
  <2>3. MovesTo(c, drawn(id).pc, {"id"})
    BY <1>3, <2>1, ReplacementMoves
  <2> QED
    BY <1>3, <2>1, <2>2, <2>3, <2>4 DEF Draws
<1>4. ASSUME NEW n, call' = [call EXCEPT ![c] = again(n)]
      PROVE  MovesTo(c, "seed", {"attempt"})
  <2>1. /\ Total(again(n), CallFields) /\ again(n).pc = "seed"
        /\ \A f \in CallFields \ ({"pc"} \cup {"attempt"}) : again(n)[f] = call[c][f]
    BY <1>1 DEF Total, CallFields
  <2> HIDE DEF again
  <2> QED
    BY <1>4, <2>1, ReplacementMoves
<1> DEFINE taken == \E id \in Nat : /\ counters[coll] < id
                                   /\ counters' = [counters EXCEPT ![coll] = id]
                                   /\ call' = [call EXCEPT ![c] = drawn(id)]
           counted == \/ counters' = counters
                      \/ \E lost \in {0, 1} : counters' = [counters EXCEPT ![coll] = @ + lost]
           next == \/ Answering(c) \/ Goto(c, "increment")
                   \/ \E n : call' = [call EXCEPT ![c] = again(n)]
<1>5. IncrementFirst(c, coll) => taken \/ (counted /\ next)
  <2>1. CASE /\ counters' = [counters EXCEPT ![coll] = @ + 1]
             /\ call' = [call EXCEPT ![c].id = counters[coll] + 1, ![c].pc = "insert"]
    <3>1. call' = [call EXCEPT ![c] = drawn(counters[coll] + 1)]
      BY <2>1
    <3>2. counters[coll] + 1 \in Nat /\ counters[coll] < counters[coll] + 1
      BY <1>2
    <3> QED
      BY <2>1, <3>1, <3>2
  <2>2. CASE call' = [call EXCEPT ![c].attempt = 1, ![c].pc = "seed"] /\ counted
    BY <2>2
  <2> QED
    BY <2>1, <2>2 DEF IncrementFirst
<1>6. SeedCounter(c, coll) => taken \/ (counted /\ next)
  <2>1. CASE /\ counters[coll] = 0
             /\ counters' = [counters EXCEPT ![coll] = initialSequenceValue]
             /\ call' = [call EXCEPT ![c].id = initialSequenceValue, ![c].pc = "insert"]
    <3>1. call' = [call EXCEPT ![c] = drawn(initialSequenceValue)]
      BY <2>1
    <3>2. initialSequenceValue \in Nat /\ counters[coll] < initialSequenceValue
      BY <2>1 DEF initialSequenceValue
    <3> QED
      BY <2>1, <3>1, <3>2
  <2> QED
    BY <2>1 DEF SeedCounter, Answering
<1>7. IncrementAgain(c, coll) => taken \/ (counted /\ next)
  <2>1. CASE /\ counters' = [counters EXCEPT ![coll] = @ + 1]
             /\ call' = [call EXCEPT ![c].id = counters[coll] + 1, ![c].pc = "insert"]
    <3>1. call' = [call EXCEPT ![c] = drawn(counters[coll] + 1)]
      BY <2>1
    <3>2. counters[coll] + 1 \in Nat /\ counters[coll] < counters[coll] + 1
      BY <1>2
    <3> QED
      BY <2>1, <3>1, <3>2
  <2>2. CASE call' = [call EXCEPT ![c].attempt = @ + 1, ![c].pc = "seed"] /\ counted
    BY <2>2
  <2> QED
    BY <2>1, <2>2 DEF IncrementAgain, Answering
<1>10. counted => /\ CountersGrow
                  /\ \A l \in Collections : l # coll => counters'[l] = counters[l]
  BY <1>2, <1>8, <1>9
<1>11. taken => /\ CountersGrow /\ Draws(c, coll)
                /\ \A l \in Collections : l # coll => counters'[l] = counters[l]
  <2> SUFFICES ASSUME taken
               PROVE  /\ CountersGrow /\ Draws(c, coll)
                      /\ \A l \in Collections : l # coll => counters'[l] = counters[l]
    OBVIOUS
  <2>1. PICK id \in Nat : /\ counters[coll] < id
                          /\ counters' = [counters EXCEPT ![coll] = id]
                          /\ call' = [call EXCEPT ![c] = drawn(id)]
    OBVIOUS
  <2>2. counters[coll] <= id
    BY <1>2, <2>1
  <2>3. Draws(c, coll)
    BY <1>3, <2>1
  <2> QED
    BY <1>8, <2>1, <2>2, <2>3
<1>12. next => Answering(c) \/ MovesTo(c, "increment", {}) \/ MovesTo(c, "seed", {"attempt"})
  BY <1>4, GotoMoves
<1> HIDE DEF taken, counted, next
<1> QED
  BY <1>5, <1>6, <1>7, <1>10, <1>11, <1>12 DEF GenerateIdentifier

\* The call that a request begins, in the words of Begin.
Opened(q, tok, id, pathId, mask) ==
    [IdleCall EXCEPT
       !.rpc = ReachedRpc(q), !.asked = q.rpc, !.n = Serial(ReachedRpc(q)), !.tok = tok,
       !.id = id, !.pathId = pathId, !.given = q.given, !.mask = mask,
       !.pc = FirstStep(ReachedRpc(q)), !.since = Since(ReachedRpc(q))]

\* A call begins with what its request says, or is answered at once.
LEMMA BeginEffect ==
  ASSUME Shaped, NEW c \in Callers, Begin(c)
  PROVE  \/ Answering(c)
         \/ \E q \in Requests :
               /\ Replaces(c)
               /\ call'[c].rpc = ReachedRpc(q)
               /\ call'[c].pc = FirstStep(ReachedRpc(q))
               /\ call'[c].since = Since(ReachedRpc(q))
               /\ call'[c].given = q.given
<1>1. PICK q \in Requests, tok \in wallet \cup {NoToken} :
         LET r == AllRoutes[Reached[RouteOf(q.rpc)]]
             form == HttpForm(AllRoutes[RouteOf(q.rpc)])
             id == DecodedIdentifier(r, form, q.id, q.bodyId)
             pathId == IF AnyId \in {form.path[i] : i \in DOMAIN form.path} THEN q.id ELSE q.bodyId
             mask == DecodedMask(r, q.query, q.fields)
         IN call' = [call EXCEPT ![c] = IF id = NotANumber THEN Answered("InvalidArgument")
                                        ELSE Opened(q, tok, id, pathId, mask)]
  BY DEF Begin, Opened, ReachedRpc
<1>2. PICK id, pathId, mask :
         call' = [call EXCEPT ![c] = IF id = NotANumber THEN Answered("InvalidArgument")
                                     ELSE Opened(q, tok, id, pathId, mask)]
  BY <1>1
<1> DEFINE k == Opened(q, tok, id, pathId, mask)
<1>3. CASE id = NotANumber
  BY <1>2, <1>3 DEF Answering, Answer
<1>4. CASE id # NotANumber
  <2>1. call' = [call EXCEPT ![c] = k] /\ call'[c] = k
    BY <1>2, <1>4 DEF Shaped, Total
  <2>2. Total(IdleCall, CallFields)
    BY DEF IdleCall, Total, CallFields
  <2>3. /\ Total(k, CallFields)
        /\ k.rpc = ReachedRpc(q) /\ k.pc = FirstStep(ReachedRpc(q))
        /\ k.since = Since(ReachedRpc(q)) /\ k.given = q.given
    BY <2>2 DEF Opened, Total, CallFields
  <2> HIDE DEF k
  <2> QED
    BY <2>1, <2>3 DEF Replaces
<1> QED
  BY <1>3, <1>4

\* The copy of a record that UpdateRepository and the probes go on with.
LEMMA ReadMoves ==
  ASSUME Shaped, NEW c \in Callers, ReadRepository(c)
  PROVE  \/ Answering(c)
         \/ /\ Live("repositories", call[c].id)
            /\ \/ /\ call[c].rpc = "UpdateRepository"
                  /\ MovesTo(c, "store", {"doc"})
                  /\ call'[c].doc = [f \in DOMAIN docs["repositories"][call[c].id] |->
                                       IF f \in call[c].mask \cap RepositoryFields
                                       THEN call[c].given[f]
                                       ELSE docs["repositories"][call[c].id][f]]
               \/ /\ call[c].rpc # "UpdateRepository"
                  /\ MovesTo(c, "probe", {"doc"})
                  /\ call'[c].doc = docs["repositories"][call[c].id]
<1> DEFINE k(d, pc) == [call[c] EXCEPT !.doc = d, !.pc = pc]
<1>1. Total(call[c], CallFields)
  BY DEF Shaped
<1>2. ASSUME NEW d, NEW pc, call' = [call EXCEPT ![c] = k(d, pc)]
      PROVE  MovesTo(c, pc, {"doc"}) /\ call'[c].doc = d
  <2>1. /\ Total(k(d, pc), CallFields) /\ k(d, pc).pc = pc /\ k(d, pc).doc = d
        /\ \A f \in CallFields \ ({"pc"} \cup {"doc"}) : k(d, pc)[f] = call[c][f]
    BY <1>1 DEF Total, CallFields
  <2>2. call'[c] = k(d, pc)
    BY <1>2 DEF Shaped, Total
  <2> HIDE DEF k
  <2> QED
    BY <1>2, <2>1, <2>2, ReplacementMoves
<1>3. CASE ~Live("repositories", call[c].id)
  BY <1>3 DEF ReadRepository, Answering
<1>4. CASE Live("repositories", call[c].id) /\ call[c].rpc = "UpdateRepository"
  <2> DEFINE d == [f \in DOMAIN docs["repositories"][call[c].id] |->
                     IF f \in call[c].mask \cap RepositoryFields THEN call[c].given[f]
                     ELSE docs["repositories"][call[c].id][f]]
  <2>1. call' = [call EXCEPT ![c] = k(d, "store")]
    BY <1>4 DEF ReadRepository
  <2> HIDE DEF k
  <2>2. MovesTo(c, "store", {"doc"}) /\ call'[c].doc = d
    BY <1>2, <2>1
  <2> QED
    BY <1>4, <2>2
<1>5. CASE Live("repositories", call[c].id) /\ call[c].rpc # "UpdateRepository"
  <2>1. call' = [call EXCEPT ![c] = k(docs["repositories"][call[c].id], "probe")]
    BY <1>5 DEF ReadRepository
  <2> HIDE DEF k
  <2> QED
    BY <1>2, <1>5, <2>1
<1> QED
  BY <1>3, <1>4, <1>5

\* State and status say the same.
Agrees(d) == d.state = connectionStatusToState(d.connection_status)

\* A probe puts a state and a status that agree into its copy of the record, and
\* none of its answers is that of a duplicate.
ProbeAnswers == {"OK", "PermissionDenied", "NotFound", "Internal"}

\* A probe leaves state and access of the copy in agreement.
LEMMA ProbeMoves ==
  ASSUME Shaped, NEW c \in Callers, TestConnectionProbe(c) \/ ListBranchesProbe(c)
  PROVE  /\ MovesTo(c, "persist", {"doc", "cause"})
         /\ call'[c].cause \in ProbeAnswers
         /\ Total(call[c].doc, RepositoryRecord) =>
               Total(call'[c].doc, RepositoryRecord) /\ Agrees(call'[c].doc)
<1> DEFINE d(status, state, branch) ==
             [call[c].doc EXCEPT !.connection_status = status, !.state = state,
                                 !.default_branch = branch]
           k(doc, cause) == [call[c] EXCEPT !.doc = doc, !.cause = cause, !.pc = "persist"]
<1>1. Total(call[c], CallFields)
  BY DEF Shaped
<1>2. ASSUME NEW doc, NEW cause \in ProbeAnswers, call' = [call EXCEPT ![c] = k(doc, cause)]
      PROVE  /\ MovesTo(c, "persist", {"doc", "cause"}) /\ call'[c].doc = doc
             /\ call'[c].cause \in ProbeAnswers
  <2>1. /\ Total(k(doc, cause), CallFields) /\ k(doc, cause).pc = "persist"
        /\ k(doc, cause).doc = doc /\ k(doc, cause).cause = cause
        /\ \A f \in CallFields \ ({"pc"} \cup {"doc", "cause"}) : k(doc, cause)[f] = call[c][f]
    BY <1>1 DEF Total, CallFields
  <2>2. call'[c] = k(doc, cause)
    BY <1>2 DEF Shaped, Total
  <2> HIDE DEF k
  <2> QED
    BY <1>2, <2>1, <2>2, ReplacementMoves
<1>3. CASE TestConnectionProbe(c)
  <2>1. PICK s1 \in HttpStatuses, s2 \in HttpStatuses :
          LET status == ProbedStatus(ProbeSource(s1, s2, call[c].doc.credential_ref # "")) IN
          call' = [call EXCEPT ![c].doc.connection_status = status,
                               ![c].doc.state = connectionStatusToState(status),
                               ![c].cause = "OK", ![c].pc = "persist"]
    BY <1>3 DEF TestConnectionProbe
  <2> DEFINE status == ProbedStatus(ProbeSource(s1, s2, call[c].doc.credential_ref # ""))
             doc == [call[c].doc EXCEPT !.connection_status = status,
                                        !.state = connectionStatusToState(status)]
  <2>4. call' = [call EXCEPT ![c].doc.connection_status = status,
                             ![c].doc.state = connectionStatusToState(status),
                             ![c].cause = "OK", ![c].pc = "persist"]
    BY <2>1
  <2> HIDE DEF status
  <2>2. call' = [call EXCEPT ![c] = k(doc, "OK")]
    BY <1>1, <2>4 DEF Total, CallFields
  <2>3. Total(call[c].doc, RepositoryRecord) => Total(doc, RepositoryRecord) /\ Agrees(doc)
    BY DEF Total, RepositoryRecord, Agrees
  <2> QED
    BY <1>2, <2>2, <2>3 DEF ProbeAnswers
<1>4. CASE ListBranchesProbe(c)
  <2>1. CASE \E l \in Listings :
               call' = [call EXCEPT ![c].doc.connection_status = "OK",
                                    ![c].doc.state = "CONNECTED",
                                    ![c].doc.default_branch = DefaultBranch(l, @),
                                    ![c].cause = "OK", ![c].pc = "persist"]
    <3>1. PICK l \in Listings :
               call' = [call EXCEPT ![c].doc.connection_status = "OK",
                                    ![c].doc.state = "CONNECTED",
                                    ![c].doc.default_branch = DefaultBranch(l, @),
                                    ![c].cause = "OK", ![c].pc = "persist"]
      BY <2>1
    <3> DEFINE branch == DefaultBranch(l, call[c].doc.default_branch)
               doc == [call[c].doc EXCEPT !.connection_status = "OK", !.state = "CONNECTED",
                                          !.default_branch = branch]
    <3>4. call' = [call EXCEPT ![c] =
                     [call[c] EXCEPT !.doc.connection_status = "OK", !.doc.state = "CONNECTED",
                                     !.doc.default_branch = DefaultBranch(l, @),
                                     !.cause = "OK", !.pc = "persist"]]
      BY <3>1
    <3>2. call' = [call EXCEPT ![c] = k(doc, "OK")]
      BY <1>1, <3>4 DEF Total, CallFields
    <3> HIDE DEF branch
    <3>3. Total(call[c].doc, RepositoryRecord) => Total(doc, RepositoryRecord) /\ Agrees(doc)
      BY DEF Total, RepositoryRecord, Agrees, connectionStatusToState
    <3> QED
      BY <1>2, <3>2, <3>3 DEF ProbeAnswers
  <2>2. CASE \E e \in ListErrors :
               call' = [call EXCEPT ![c].doc.connection_status = ListErrorStatus(e),
                                 ![c].doc.state = IF e = "auth" THEN "ERROR" ELSE "DISCONNECTED",
                                 ![c].cause = ListErrorAnswer(e), ![c].pc = "persist"]
    <3>1. PICK e \in ListErrors :
               call' = [call EXCEPT ![c].doc.connection_status = ListErrorStatus(e),
                                 ![c].doc.state = IF e = "auth" THEN "ERROR" ELSE "DISCONNECTED",
                                 ![c].cause = ListErrorAnswer(e), ![c].pc = "persist"]
      BY <2>2
    <3> DEFINE state == IF e = "auth" THEN "ERROR" ELSE "DISCONNECTED"
               doc == [call[c].doc EXCEPT !.connection_status = ListErrorStatus(e),
                                          !.state = state]
    <3>2. call' = [call EXCEPT ![c] = k(doc, ListErrorAnswer(e))]
      BY <1>1, <3>1 DEF Total, CallFields
    <3>3. Total(call[c].doc, RepositoryRecord) => Total(doc, RepositoryRecord) /\ Agrees(doc)
      BY DEF Total, RepositoryRecord, Agrees, connectionStatusToState, ListErrorStatus
    <3>4. ListErrorAnswer(e) \in ProbeAnswers
      BY DEF ListErrorAnswer, ProbeAnswers
    <3> QED
      BY <1>2, <3>2, <3>3, <3>4
  <2> QED
    BY <1>4, <2>1, <2>2 DEF ListBranchesProbe
<1> QED
  BY <1>3, <1>4

--------------------------------------------------------------------------------
(* The way of a call through the steps of the services. *)

ClientStep(c) ==
    \/ IdentityStep(c) \/ RepositoryStep(c) \/ ArticlesStep(c)
    \/ LoadMigration(c) \/ LoadSummary(c) \/ PassOn(c)

\* What drawing an identifier may do to the call.
Identifies(c) ==
    /\ call[c].pc \in {"identifier", "seed", "increment"}
    /\ call[c].rpc \in {"CreateUser", "CreateArticle"}
    /\ \/ MovesTo(c, "increment", {})
       \/ MovesTo(c, "seed", {"attempt"})
       \/ Draws(c, CreatedIn(call[c].rpc))

\* What the steps that keep a copy of a repository record do to the call.
Copies(c) ==
    \/ /\ call[c].rpc = "UpdateRepository"
       /\ MovesTo(c, "store", {"doc"})
       /\ call'[c].doc = [f \in DOMAIN docs["repositories"][call[c].id] |->
                            IF f \in call[c].mask \cap RepositoryFields THEN call[c].given[f]
                            ELSE docs["repositories"][call[c].id][f]]
    \/ /\ call[c].rpc # "UpdateRepository"
       /\ MovesTo(c, "probe", {"doc"})
       /\ call'[c].doc = docs["repositories"][call[c].id]

Probes(c) ==
    /\ MovesTo(c, "persist", {"doc", "cause"})
    /\ call'[c].cause \in ProbeAnswers
    /\ Total(call[c].doc, RepositoryRecord) =>
          Total(call'[c].doc, RepositoryRecord) /\ Agrees(call'[c].doc)

\* The fields that one of these steps changes beside pc.
MovedFields == {{}, {"id"}, {"attempt"}, {"doc"}, {"sid"}, {"uid", "sys"}, {"doc", "cause"}}

\* A step that does not end the call.
Travels(c) ==
    \/ /\ call[c].pc = "verify" /\ MovesTo(c, "session", {})
       /\ Verify(call[c].tok, call[c].rpc = "RefreshToken")
    \/ call[c].pc = "session" /\ MovesTo(c, AfterSession(call[c].rpc), {"uid", "sys"})
    \/ Identifies(c)
    \/ call[c].pc = "read" /\ MovesTo(c, "write", {"doc"})
    \/ /\ call[c].pc = "credentials" /\ MovesTo(c, "save", {"uid", "sys"})
       /\ Live("users", call'[c].uid)
    \/ call[c].pc = "save" /\ MovesTo(c, "member", {"sid"})
    \/ call[c].pc = "user" /\ MovesTo(c, "revoke", {}) /\ Live("users", call[c].uid)
    \/ call[c].pc \in {"end", "unlist"} /\ \E pc \in {"unlist", "ban"} : MovesTo(c, pc, {})
    \/ call[c].pc = "load" /\ \E pc \in {"delete", "reread", "copy"} : MovesTo(c, pc, {})
    \/ call[c].pc = "reread" /\ Live("repositories", call[c].id) /\ Copies(c)
    \/ call[c].pc = "probe" /\ call[c].rpc # "ProbeSourceRepository" /\ Probes(c)
    \/ call[c].pc = "copy" /\ MovesTo(c, "publish", {"doc"})

\* Every step of a service ends its call or takes it to its next step.
LEMMA StepKinds ==
  ASSUME Shaped, CountersOK, NEW c \in Callers, ClientStep(c)
  PROVE  Answering(c) \/ Travels(c)
<1>1. ASSUME Ends(c) PROVE Answering(c)
  BY <1>1 DEF Ends, Answering
<1>2. CASE IdentityStep(c)
  <2>1. CASE VerifyToken(c)
    BY <2>1, VerifyMoves DEF VerifyToken, Travels
  <2>2. CASE LoadSession(c)
    BY <2>2, SessionMoves DEF LoadSession, Travels
  <2>3. CASE UserIdentifier(c)
    BY <2>3, IdentifierMoves DEF UserIdentifier, Travels, Identifies, CreatedIn, Collections
  <2>4. CASE UpdateUserRead(c)
    BY <2>4, UserReadMoves DEF UpdateUserRead, Travels
  <2>5. CASE ReadCredentials(c)
    BY <2>5, CredentialsMove DEF ReadCredentials, Travels
  <2>6. CASE SaveSession(c)
    BY <2>6, SaveMoves DEF SaveSession, Travels
  <2>7. CASE RefreshUser(c)
    BY <2>7, RefreshMoves DEF RefreshUser, Travels
  <2>8. CASE LogoutDelete(c) \/ LogoutUnlist(c)
    BY <2>8, LogoutMoves DEF LogoutDelete, LogoutUnlist, Travels
  <2> QED
    BY <1>1, <1>2, <2>1, <2>2, <2>3, <2>4, <2>5, <2>6, <2>7, <2>8, LastSteps, ReadersEnd
    DEF IdentityStep
<1>3. CASE RepositoryStep(c)
  <2>1. CASE LoadRepository(c)
    BY <2>1, LoadMoves DEF LoadRepository, Travels
  <2>2. CASE ReadRepository(c)
    BY <2>2, ReadMoves DEF ReadRepository, Travels, Copies
  <2>3. CASE TestConnectionProbe(c) \/ ListBranchesProbe(c)
    <3>1. call[c].pc = "probe" /\ call[c].rpc # "ProbeSourceRepository"
      BY <2>3 DEF TestConnectionProbe, ListBranchesProbe
    <3> QED
      BY <2>3, <3>1, ProbeMoves DEF Travels, Probes
  <2> QED
    BY <1>1, <1>3, <2>1, <2>2, <2>3, LastSteps, ReadersEnd, PushEnds DEF RepositoryStep
<1>4. CASE ArticlesStep(c)
  <2>1. CASE ArticleIdentifier(c)
    BY <2>1, IdentifierMoves DEF ArticleIdentifier, Travels, Identifies, CreatedIn, Collections
  <2>2. CASE LoadArticle(c)
    BY <2>2, LoadMoves DEF LoadArticle, Travels
  <2>3. CASE UpdateArticleRead(c)
    BY <2>3, ArticleReadMoves DEF UpdateArticleRead, Travels
  <2> QED
    BY <1>1, <1>4, <2>1, <2>2, <2>3, LastSteps, ReadersEnd DEF ArticlesStep
<1> QED
  BY <1>1, <1>2, <1>3, <1>4, ReadersEnd DEF ClientStep

\* A step of a client replaces its call, and that one only.
LEMMA ClientReplaces ==
  ASSUME Shaped, CountersOK, NEW c \in Callers, Begin(c) \/ ClientStep(c)
  PROVE  Replaces(c)
<1>1. CASE Answering(c)
  BY <1>1, AnsweringEffect
<1>2. CASE Travels(c)
  BY <1>2 DEF Travels, MovesTo, Identifies, Draws, Copies, Probes
<1> QED
  BY <1>1, <1>2, StepKinds, BeginEffect

\* Only the three creations touch the counters, and none makes one fall.
LEMMA CounterWriters ==
  ASSUME Shaped, CountersOK, NEW c \in Callers, Begin(c) \/ ClientStep(c)
  PROVE  /\ CountersGrow
         /\ UNCHANGED counters \/ CreateRepository(c) \/ UserIdentifier(c) \/ ArticleIdentifier(c)
<1>1. UNCHANGED counters \/ CreateRepository(c) \/ UserIdentifier(c) \/ ArticleIdentifier(c)
  <2> USE DEF storeVars
  <2>1. CASE Begin(c)
    BY <2>1 DEF Begin
  <2>2. CASE IdentityStep(c)
    BY <2>2, ReadersEnd DEF IdentityStep, Ends, watched, VerifyToken, LoadSession, InsertUser,
       UpdateUserRead, UpdateUserWrite, DeleteUser, ReadCredentials, SaveSession, ListSession,
       RefreshUser, RefreshRevoke, LogoutDelete, LogoutUnlist, LogoutBan
  <2>3. CASE RepositoryStep(c)
    BY <2>3, ReadersEnd, PushEnds DEF RepositoryStep, Ends, watched, LoadRepository,
       ReadRepository, UpdateRepositoryWrite, DeleteRepository, TestConnectionProbe,
       ListBranchesProbe, PersistProbe
  <2>4. CASE ArticlesStep(c)
    BY <2>4, ReadersEnd DEF ArticlesStep, Ends, watched, InsertArticle, LoadArticle,
       UpdateArticleRead, UpdateArticleWrite, DeleteArticle
  <2>5. CASE LoadMigration(c) \/ LoadSummary(c) \/ PassOn(c)
    BY <2>5, ReadersEnd DEF Ends, watched
  <2> QED
    BY <2>1, <2>2, <2>3, <2>4, <2>5 DEF ClientStep
<1>2. CASE UNCHANGED counters
  BY <1>2 DEF CountersOK, CountersGrow, Total
<1>3. CASE CreateRepository(c)
  <2>1. "repositories" \in Collections
    BY DEF Collections
  <2>2. /\ NextIdentifier("repositories") \in Nat
        /\ counters["repositories"] <= NextIdentifier("repositories")
    BY <2>1 DEF CountersOK, NextIdentifier, initialSequenceValue
  <2>3. \/ UNCHANGED counters
        \/ counters' = [counters EXCEPT !["repositories"] = NextIdentifier("repositories")]
    BY <1>3 DEF CreateRepository, storeVars
  <2> QED
    BY <1>2, <1>3, <2>1, <2>2, <2>3, CounterSet
<1>4. CASE UserIdentifier(c) \/ ArticleIdentifier(c)
  BY <1>4, IdentifierMoves DEF UserIdentifier, ArticleIdentifier, Collections
<1> QED
  BY <1>1, <1>2, <1>3, <1>4

\* What every proof below starts from.
Base == Shaped /\ CountersOK

\* The first state is well shaped.
LEMMA InitBase == Init => Base
<1> SUFFICES ASSUME Init PROVE Base
  OBVIOUS
<1>1. Total(docs, Collections)
  BY InitDocuments
<1>2. Total(IdleCall, CallFields)
  BY DEF IdleCall, Total, CallFields
<1>3. Total(call, Callers) /\ \A c \in Callers : call[c] = IdleCall
  BY DEF Init, Total
<1>4. CountersOK
  BY DEF Init, CountersOK, Total, Collections, root
<1> QED
  BY <1>1, <1>2, <1>3, <1>4 DEF Base, Shaped

\* The steps of the world around the services.
Elapses ==
    \/ \E s \in DOMAIN sessions : SessionExpires(s)
    \/ \E tok \in wallet : TokenExpires(tok)
    \/ \E t \in Targets : ForeignCommit(t)

\* Expiry and a commit of somebody else touch no document and no call.
LEMMA ElapsesEffect ==
  ASSUME Elapses \/ UNCHANGED vars
  PROVE  UNCHANGED <<docs, counters, call, blacklist, spent, touched>>
  BY DEF Elapses, SessionExpires, TokenExpires, ForeignCommit, storeVars, tokenVars, vars

\* A step is one of a client, a lapse of time or none.
LEMMA NextCases ==
  ASSUME [Next]_vars
  PROVE  (\E c \in Callers : Begin(c) \/ ClientStep(c)) \/ Elapses \/ UNCHANGED vars
  BY DEF Next, ClientStep, Elapses

\* Every step keeps the state well shaped.
LEMMA NextBase == Base /\ [Next]_vars => Base'
<1> SUFFICES ASSUME Base, [Next]_vars PROVE Base'
  OBVIOUS
<1>1. Total(docs', Collections)
  BY NextDocuments DEF Base, Shaped
<1>2. ASSUME NEW c \in Callers, Begin(c) \/ ClientStep(c)
      PROVE  Base'
  BY <1>1, <1>2, ClientReplaces, ReplacesEffect, CounterWriters DEF Base, Shaped, CountersGrow
<1>3. CASE Elapses \/ UNCHANGED vars
  BY <1>3, ElapsesEffect DEF Base, Shaped, CountersOK, Total
<1> QED
  BY <1>2, <1>3, NextCases

--------------------------------------------------------------------------------
(* Tokens. *)

\* Only a refresh and a log-out revoke, and what is spent is on the blacklist.
LEMMA TokenWriters ==
  ASSUME spent \subseteq blacklist, [Next]_vars
  PROVE  spent \subseteq spent' /\ spent' \subseteq blacklist'
<1>1. ASSUME NEW c \in Callers, Begin(c) \/ ClientStep(c)
      PROVE  spent \subseteq spent' /\ spent' \subseteq blacklist'
  <2> USE DEF tokenVars
  <2>1. CASE Begin(c)
    BY <2>1 DEF Begin
  <2>2. CASE IdentityStep(c)
    <3>1. CASE RefreshRevoke(c)
      BY <3>1 DEF RefreshRevoke, AddTokenToBlacklist
    <3>2. CASE LogoutBan(c)
      BY <3>2 DEF LogoutBan, AddTokenToBlacklist
    <3> QED
      BY <2>2, <3>1, <3>2, ReadersEnd DEF IdentityStep, Ends, watched, VerifyToken, LoadSession,
         UserIdentifier, GenerateIdentifier, InsertUser, UpdateUserRead, UpdateUserWrite,
         DeleteUser, ReadCredentials, SaveSession, ListSession, RefreshUser, LogoutDelete,
         LogoutUnlist
  <2>3. CASE RepositoryStep(c)
    BY <2>3, ReadersEnd, PushEnds DEF RepositoryStep, Ends, watched, CreateRepository,
       LoadRepository, ReadRepository, UpdateRepositoryWrite, DeleteRepository,
       TestConnectionProbe, ListBranchesProbe, PersistProbe
  <2>4. CASE ArticlesStep(c)
    BY <2>4, ReadersEnd DEF ArticlesStep, Ends, watched, ArticleIdentifier, GenerateIdentifier,
       InsertArticle, LoadArticle, UpdateArticleRead, UpdateArticleWrite, DeleteArticle
  <2>5. CASE LoadMigration(c) \/ LoadSummary(c) \/ PassOn(c)
    BY <2>5, ReadersEnd DEF Ends, watched
  <2> QED
    BY <1>1, <2>1, <2>2, <2>3, <2>4, <2>5 DEF ClientStep
<1>2. CASE Elapses \/ UNCHANGED vars
  BY <1>2, ElapsesEffect
<1> QED
  BY <1>1, <1>2, NextCases

\* A call that has been checked against what was refused when it began may go on.
LEMMA OtherMints ==
  ASSUME NEW d, MintsHonestly(call[d]), call'[d] = call[d],
         spent \subseteq spent', DeletedUsers \subseteq DeletedUsers'
  PROVE  MintsHonestly(call[d])'
  BY DEF MintsHonestly

\* A deleted user stays deleted.
LEMMA DeletedUsersGrow ==
  ASSUME Shaped, [Next]_vars
  PROVE  DeletedUsers \subseteq DeletedUsers'
<1>1. DeletedKept /\ "users" \in Collections
  BY NextDocuments DEF Shaped, Collections
<1> QED
  BY <1>1 DEF DeletedKept, DeletedUsers

\* A step of a client leaves its call honest about what it may mint.
LEMMA ClientMints ==
  ASSUME Base, TokensInv, NEW c \in Callers, Begin(c) \/ ClientStep(c),
         spent \subseteq spent', DeletedUsers \subseteq DeletedUsers'
  PROVE  MintsHonestly(call[c])'
<1> DEFINE k == call[c]
           l == call'[c]
<1>0. MintsHonestly(k) /\ spent \subseteq blacklist
  BY DEF TokensInv
<1>1. CASE Answering(c)
  <2>1. l.pc = "idle" /\ l.rpc = "none" /\ l.since.spent = {} /\ l.since.deleted = {}
    BY <1>1, AnsweringEffect DEF Base
  <2> QED
    BY <2>1 DEF MintsHonestly
<1>2. CASE Begin(c) /\ ~Answering(c)
  <2>1. PICK rpc : l.rpc = rpc /\ l.pc = FirstStep(rpc) /\ l.since = Since(rpc)
    BY <1>2, BeginEffect DEF Base
  <2>2. l.since.spent \subseteq spent' /\ l.since.deleted \subseteq DeletedUsers'
    BY <2>1 DEF Since, IdleCall, DeletedUsers
  <2>3. l.pc \notin {"save", "member", "revoke"} /\ (l.rpc = "RefreshToken" => l.pc = "verify")
    BY <2>1 DEF FirstStep
  <2> QED
    BY <2>2, <2>3 DEF MintsHonestly
<1>3. ASSUME NEW pc, NEW F \in {{}, {"id"}, {"attempt"}, {"doc"}, {"sid"}, {"uid", "sys"}, {"doc", "cause"}},
             MovesTo(c, pc, F)
      PROVE  /\ l.rpc = k.rpc /\ l.tok = k.tok /\ l.since = k.since /\ l.pc = pc
             /\ F # {"uid", "sys"} => l.uid = k.uid
  BY <1>3 DEF MovesTo, CallFields
<1>4. ASSUME NEW pc, NEW F, MovesTo(c, pc, F),
             F \in {{}, {"id"}, {"attempt"}, {"doc"}, {"doc", "cause"}, {"uid", "sys"}},
             k.rpc # "RefreshToken", pc \notin {"save", "member", "revoke"}
      PROVE  MintsHonestly(call[c])'
  BY <1>0, <1>3, <1>4 DEF MintsHonestly
<1>5. ASSUME NEW u, Live("users", u) PROVE u \notin k.since.deleted
  BY <1>0, <1>5 DEF Live, MintsHonestly, DeletedUsers
<1>6. CASE /\ k.pc = "verify" /\ MovesTo(c, "session", {})
           /\ Verify(k.tok, k.rpc = "RefreshToken")
  <2>1. Blacklist => k.tok \notin k.since.spent
    BY <1>0, <1>6 DEF Verify, JWTVerify, PasetoVerify, ExistBlackList, MintsHonestly
  <2> QED
    BY <1>0, <1>3, <1>6, <2>1 DEF MintsHonestly
<1>7. CASE k.pc = "session" /\ MovesTo(c, AfterSession(k.rpc), {"uid", "sys"})
  <2>1. /\ AfterSession(k.rpc) \notin {"save", "member", "revoke"}
        /\ k.rpc = "RefreshToken" => AfterSession(k.rpc) = "user"
    BY DEF AfterSession
  <2> QED
    BY <1>0, <1>3, <1>7, <2>1 DEF MintsHonestly
<1>8. CASE k.pc = "credentials" /\ MovesTo(c, "save", {"uid", "sys"}) /\ Live("users", l.uid)
  BY <1>0, <1>3, <1>5, <1>8 DEF MintsHonestly
<1>9. CASE k.pc = "save" /\ MovesTo(c, "member", {"sid"})
  BY <1>0, <1>3, <1>9 DEF MintsHonestly
<1>10. CASE k.pc = "user" /\ MovesTo(c, "revoke", {}) /\ Live("users", k.uid)
  BY <1>0, <1>3, <1>5, <1>10 DEF MintsHonestly
<1>11. CASE k.pc \notin {"verify", "session", "user", "revoke", "credentials", "save"} /\ Travels(c)
  <2>1. k.rpc # "RefreshToken"
    BY <1>0, <1>11 DEF MintsHonestly
  <2> QED
    BY <1>4, <1>11, <2>1 DEF Travels, Identifies, Draws, Copies, Probes
<1> QED
  BY <1>1, <1>2, <1>6, <1>7, <1>8, <1>9, <1>10, <1>11, StepKinds DEF Base, Travels, Identifies

\* Nothing is spent and every call is idle at the start.
LEMMA InitTokens == Init => TokensInv
<1> SUFFICES ASSUME Init PROVE TokensInv
  OBVIOUS
<1>1. \A c \in Callers : call[c] = IdleCall
  BY DEF Init
<1>2. MintsHonestly(IdleCall)
  BY DEF MintsHonestly, IdleCall
<1> QED
  BY <1>1, <1>2 DEF TokensInv, Init

\* Every step keeps the calls honest about what they may mint.
LEMMA NextTokens == Base /\ TokensInv /\ [Next]_vars => TokensInv'
<1> SUFFICES ASSUME Base, TokensInv, [Next]_vars PROVE TokensInv'
  OBVIOUS
<1>1. spent \subseteq spent' /\ spent' \subseteq blacklist'
  BY TokenWriters DEF TokensInv
<1>2. DeletedUsers \subseteq DeletedUsers'
  BY DeletedUsersGrow DEF Base
<1>3. ASSUME NEW c \in Callers, Begin(c) \/ ClientStep(c), NEW d \in Callers
      PROVE  MintsHonestly(call[d])'
  <2>1. CASE d = c
    BY <1>1, <1>2, <1>3, <2>1, ClientMints
  <2>2. CASE d # c
    <3>1. call'[d] = call[d]
      BY <1>3, <2>2, ClientReplaces, ReplacesEffect DEF Base
    <3>2. MintsHonestly(call[d])
      BY DEF TokensInv
    <3> QED
      BY <1>1, <1>2, <3>1, <3>2, OtherMints
  <2> QED
    BY <2>1, <2>2
<1>4. ASSUME Elapses \/ UNCHANGED vars, NEW d \in Callers
      PROVE  MintsHonestly(call[d])'
  <2>1. MintsHonestly(call[d])
    BY DEF TokensInv
  <2> QED
    BY <1>1, <1>2, <1>4, <2>1, ElapsesEffect, OtherMints
<1> QED
  BY <1>1, <1>3, <1>4, NextCases DEF TokensInv

\* A token that does not verify is not answered with tokens.
LEMMA VerifyRefuses ==
  ASSUME Base, [Next]_vars, NEW c \in Callers, call[c].pc = "verify"
  PROVE  ~Answers(c, "OK")
<1>1. CASE VerifyToken(c)
  <2>1. CASE MovesTo(c, "session", {})
    BY <2>1 DEF MovesTo, Answers
  <2>2. CASE Answer(c, "Unauthenticated")
    <3>1. call'[c] = Answered("Unauthenticated")
      BY <2>2 DEF Answer, Base, Shaped, Total
    <3> QED
      BY <3>1 DEF Answers, Answered, IdleCall
  <2> QED
    BY <1>1, <2>1, <2>2, GotoMoves DEF VerifyToken, Base
<1>2. CASE call'[c] = call[c]
  BY <1>2 DEF Answers
<1>3. ASSUME Begin(c) \/ ClientStep(c) PROVE VerifyToken(c)
  <2>1. ~Begin(c) /\ ~LoadMigration(c) /\ ~LoadSummary(c) /\ ~PassOn(c)
    BY DEF Begin, LoadMigration, LoadSummary, PassOn
  <2>2. IdentityStep(c) => VerifyToken(c)
    BY DEF IdentityStep, LoadSession, RejectUser, UserIdentifier, InsertUser, GetUser, ListUsers,
       UpdateUserRead, UpdateUserWrite, DeleteUser, ReadCredentials, SaveSession, ListSession,
       RefreshUser, RefreshRevoke, LogoutDelete, LogoutUnlist, LogoutBan
  <2>3. ~RepositoryStep(c)
    BY DEF RepositoryStep, CreateRepository, ListRepositories, LoadRepository, ReadRepository,
       UpdateRepositoryWrite, DeleteRepository, TestConnectionProbe, ListBranchesProbe,
       PersistProbe, ProbeSourceRepository, PushNothing, PushResult
  <2>4. ~ArticlesStep(c)
    BY DEF ArticlesStep, RejectArticle, ArticleIdentifier, InsertArticle, ReadArticles,
       LoadArticle, UpdateArticleRead, UpdateArticleWrite, DeleteArticle
  <2> QED
    BY <1>3, <2>1, <2>2, <2>3, <2>4 DEF ClientStep
<1>4. ASSUME NEW d \in Callers, d # c, Begin(d) \/ ClientStep(d) PROVE call'[c] = call[c]
  BY <1>4, ClientReplaces, ReplacesEffect DEF Base
<1>5. CASE Elapses \/ UNCHANGED vars
  BY <1>2, <1>5, ElapsesEffect
<1> QED
  BY <1>1, <1>2, <1>3, <1>4, <1>5, NextCases

\* A refresh token buys one pair of tokens: however refreshes, log-outs and lapses
\* interleave, a refresh that begins after the token was exchanged does not succeed.
THEOREM RefreshIsSpent == Spec => RefreshBuysOnce
<1> DEFINE once == \A c \in Callers :
                     Blacklist /\ call[c].rpc = "RefreshToken" /\ Answers(c, "OK")
                        => call[c].tok \notin call[c].since.spent
<1>1. Base /\ TokensInv /\ [Next]_vars => once
  BY VerifyRefuses DEF TokensInv, MintsHonestly
<1>2. Base /\ TokensInv /\ [Next]_vars => [once]_vars
  BY <1>1
<1> QED
  BY <1>2, InitBase, NextBase, InitTokens, NextTokens, PTL DEF Spec, RefreshBuysOnce

\* No log-in and no refresh that begins after an account was deleted yields tokens
\* for it, although DeleteUser leaves the account's sessions where they are.
THEOREM DeletedGetNoTokens == Spec => NoTokensForTheDeleted
<1> DEFINE none == \A c \in Callers : call[c].pc \in {"member", "revoke"} /\ Answers(c, "OK")
                     => call[c].uid \notin call[c].since.deleted
<1>1. TokensInv => none
  BY DEF TokensInv, MintsHonestly
<1>2. TokensInv => [none]_vars
  BY <1>1
<1> QED
  BY <1>2, InitBase, NextBase, InitTokens, NextTokens, PTL DEF Spec, NoTokensForTheDeleted

--------------------------------------------------------------------------------
(* Identifiers. *)

Numbered == {"users", "articles", "repositories"}

\* The steps a creation can be at, the shape of what it was given, and the answers
\* a probe carries.
CreatesProperly(k) ==
    /\ k.pc = "insert" => k.rpc \in {"CreateUser", "CreateArticle"}
    /\ k.pc = "create" => k.rpc = "CreateRepository"
    /\ k.pc = "persist" => k.cause \in ProbeAnswers
    /\ k.rpc = "CreateRepository" => Total(k.given, RepositoryRecord)
    /\ k.rpc = "CreateArticle" => Total(k.given, ArticleRecord)

\* An identifier that was drawn and not used yet.
Drawn(k) ==
    LET coll == CreatedIn(k.rpc) IN
    k.pc = "insert" => k.id \in Nat /\ k.id <= counters[coll] /\ k.id \notin DOMAIN docs[coll]

\* Identifiers come from their counter, and two calls never hold the same.
IdentifiersInv ==
    /\ \A coll \in Numbered : \A i \in DOMAIN docs[coll] : i \in Nat /\ i <= counters[coll]
    /\ \A c \in Callers : CreatesProperly(call[c]) /\ Drawn(call[c])
    /\ \A c, d \in Callers :
          c # d /\ call[c].pc = "insert" /\ call[d].pc = "insert" /\ call[c].rpc = call[d].rpc
             => call[c].id # call[d].id

\* The request of a call and the steps of a creation stay what they are.
LEMMA ClientCreates ==
  ASSUME Base, NEW c \in Callers, CreatesProperly(call[c]), Begin(c) \/ ClientStep(c)
  PROVE  CreatesProperly(call'[c])
<1> DEFINE k == call[c]
           l == call'[c]
<1>1. CASE Answering(c)
  <2>1. l.pc = "idle" /\ l.rpc = "none"
    BY <1>1, AnsweringEffect DEF Base
  <2> QED
    BY <2>1 DEF CreatesProperly
<1>2. CASE Begin(c) /\ ~Answering(c)
  <2>1. PICK q \in Requests : /\ l.rpc = ReachedRpc(q) /\ l.pc = FirstStep(ReachedRpc(q))
                              /\ l.given = q.given
    BY <1>2, BeginEffect DEF Base
  <2>2. l.pc \notin {"insert", "create", "persist"}
    BY <2>1 DEF FirstStep
  <2> QED
    BY <2>1, <2>2, RequestsAssumption DEF CreatesProperly
<1>3. ASSUME NEW pc, NEW F \in MovedFields,
             MovesTo(c, pc, F)
      PROVE  l.rpc = k.rpc /\ l.given = k.given /\ l.pc = pc
  BY <1>3 DEF MovesTo, CallFields, MovedFields
<1>4. ASSUME NEW pc, NEW F \in MovedFields,
             MovesTo(c, pc, F), pc \notin {"insert", "create", "persist"}
      PROVE  CreatesProperly(l)
  BY <1>3, <1>4 DEF CreatesProperly
<1>5. CASE Identifies(c)
  <2>1. CASE Draws(c, CreatedIn(k.rpc))
    BY <1>3, <1>5, <2>1 DEF Identifies, Draws, CreatesProperly, MovedFields
  <2> QED
    BY <1>4, <1>5, <2>1 DEF Identifies, MovedFields
<1>6. CASE k.pc = "session" /\ MovesTo(c, AfterSession(k.rpc), {"uid", "sys"})
  <2>1. /\ AfterSession(k.rpc) \notin {"insert", "persist"}
        /\ AfterSession(k.rpc) = "create" => k.rpc = "CreateRepository"
    BY DEF AfterSession
  <2> QED
    BY <1>3, <1>6, <2>1 DEF CreatesProperly, MovedFields
<1>7. CASE Probes(c)
  BY <1>3, <1>7 DEF Probes, CreatesProperly, MovedFields
<1>8. CASE Travels(c) /\ ~Identifies(c) /\ k.pc # "session" /\ ~Probes(c)
  BY <1>4, <1>8 DEF Travels, Copies, MovedFields
<1> QED
  BY <1>1, <1>2, <1>5, <1>6, <1>7, <1>8, StepKinds DEF Base, Travels

\* A call is about to insert only after it drew its identifier.
LEMMA InsertWasDrawn ==
  ASSUME Base, NEW c \in Callers, Begin(c) \/ ClientStep(c), call'[c].pc = "insert"
  PROVE  /\ Draws(c, CreatedIn(call[c].rpc))
         /\ call[c].rpc \in {"CreateUser", "CreateArticle"} /\ call'[c].rpc = call[c].rpc
<1>1. ~Answering(c)
  BY AnsweringEffect DEF Base
<1>2. ~Begin(c)
  BY <1>1, BeginEffect DEF Base, FirstStep
<1>3. Travels(c)
  BY <1>1, <1>2, StepKinds DEF Base
<1>4. AfterSession(call[c].rpc) # "insert"
  BY DEF AfterSession
<1>5. Identifies(c)
  BY <1>3, <1>4 DEF Travels, MovesTo, Copies, Probes
<1>6. Draws(c, CreatedIn(call[c].rpc)) /\ call[c].rpc \in {"CreateUser", "CreateArticle"}
  BY <1>5 DEF Identifies, MovesTo
<1>7. call'[c].rpc = call[c].rpc
  BY <1>6 DEF Draws, MovesTo, CallFields
<1> QED
  BY <1>6, <1>7

\* The collections have the documents they had, and the one with this identifier.
Adds(coll, id) ==
    /\ DOMAIN docs'[coll] = DOMAIN docs[coll] \cup {id}
    /\ \A l \in Collections : l # coll => DOMAIN docs'[l] = DOMAIN docs[l]

\* A write of a live document adds none, and one of a new document adds it.
LEMMA WriteAdds ==
  ASSUME Shaped, NEW coll \in Collections, NEW id, NEW d, Lawful(coll, id), Write(coll, id, d)
  PROVE  /\ Live(coll, id) => \A l \in Collections : DOMAIN docs'[l] = DOMAIN docs[l]
         /\ Adds(coll, id)
<1>1. Adds(coll, id)
  BY LawfulKeeps DEF Adds, Shaped
<1> QED
  BY <1>1 DEF Live, Adds

\* What a step does to the sets of identifiers in use.
LEMMA DomainEffect ==
  ASSUME Base, NEW c \in Callers, CreatesProperly(call[c]), Begin(c) \/ ClientStep(c)
  PROVE  \/ \A l \in Collections : DOMAIN docs'[l] = DOMAIN docs[l]
         \/ /\ call[c].pc = "insert" /\ Adds(CreatedIn(call[c].rpc), call[c].id)
            /\ Answering(c) /\ UNCHANGED counters
         \/ \E n \in Nat : /\ Adds("repositories", n) /\ Answering(c)
                           /\ counters["repositories"] < n
                           /\ counters' = [counters EXCEPT !["repositories"] = n]
<1> USE DEF storeVars
<1>0. /\ Shaped
      /\ "users" \in Collections /\ "articles" \in Collections /\ "repositories" \in Collections
  BY DEF Base, Collections
<1>1. CASE UNCHANGED docs
  BY <1>1
<1>2. ASSUME NEW coll \in Collections, NEW id, NEW d, Live(coll, id), Write(coll, id, d)
      PROVE  \A l \in Collections : DOMAIN docs'[l] = DOMAIN docs[l]
  BY <1>0, <1>2, WriteAdds DEF Lawful
<1>3. CASE InsertUser(c)
  <2>1. CASE ~DuplicateKey("users", call[c].id, call[c].given) /\ Write("users", call[c].id, call[c].given)
    <3>1. Adds("users", call[c].id)
      BY <1>0, <2>1, WriteAdds DEF Lawful, DuplicateKey
    <3> QED
      BY <1>3, <3>1, LastSteps DEF InsertUser, CreatedIn
  <2> QED
    BY <1>1, <1>3, <2>1 DEF InsertUser
<1>4. CASE InsertArticle(c)
  <2> DEFINE d == [call[c].given EXCEPT !.owner = IF @ = 0 THEN call[c].uid ELSE @, !.state = "ACTIVE"]
  <2>1. CASE ~DuplicateKey("articles", call[c].id, d) /\ Write("articles", call[c].id, d)
    <3>1. Adds("articles", call[c].id)
      BY <1>0, <2>1, WriteAdds DEF Lawful, DuplicateKey
    <3> QED
      BY <1>4, <3>1, LastSteps DEF InsertArticle, CreatedIn
  <2> QED
    BY <1>1, <1>4, <2>1 DEF InsertArticle
<1>5. CASE CreateRepository(c)
  <2> DEFINE d == [call[c].given EXCEPT !.owner = IF @ = 0 THEN call[c].uid ELSE @]
             n == NextIdentifier("repositories")
  <2>1. CASE /\ ~DuplicateKey("repositories", n, d) /\ Write("repositories", n, d)
             /\ counters' = [counters EXCEPT !["repositories"] = n]
    <3>1. Adds("repositories", n)
      BY <1>0, <2>1, WriteAdds DEF Lawful, DuplicateKey
    <3>2. n \in Nat /\ counters["repositories"] < n
      BY <1>0 DEF Base, CountersOK, NextIdentifier, initialSequenceValue
    <3> HIDE DEF n
    <3> QED
      BY <1>5, <2>1, <3>1, <3>2, LastSteps
  <2> QED
    BY <1>1, <1>5, <2>1 DEF CreateRepository
<1>6. CASE UpdateUserWrite(c)
  BY <1>0, <1>1, <1>2, <1>6 DEF UpdateUserWrite
<1>7. CASE DeleteUser(c)
  BY <1>0, <1>1, <1>2, <1>7 DEF DeleteUser
<1>8. CASE UpdateRepositoryWrite(c)
  BY <1>0, <1>1, <1>2, <1>8 DEF UpdateRepositoryWrite, Updatable
<1>9. CASE DeleteRepository(c)
  BY <1>0, <1>1, <1>2, <1>9 DEF DeleteRepository
<1>10. CASE PersistProbe(c)
  BY <1>0, <1>1, <1>2, <1>10 DEF PersistProbe, Updatable
<1>11. CASE UpdateArticleWrite(c)
  BY <1>0, <1>1, <1>2, <1>11 DEF UpdateArticleWrite
<1>12. CASE DeleteArticle(c)
  BY <1>0, <1>1, <1>2, <1>12 DEF DeleteArticle
<1>13. CASE Begin(c)
  BY <1>1, <1>13 DEF Begin
<1>14. CASE IdentityStep(c)
  BY <1>1, <1>3, <1>6, <1>7, <1>14, ReadersEnd DEF IdentityStep, Ends, watched, VerifyToken,
     LoadSession, UserIdentifier, GenerateIdentifier, UpdateUserRead, ReadCredentials,
     SaveSession, ListSession, RefreshUser, RefreshRevoke, LogoutDelete, LogoutUnlist, LogoutBan
<1>15. CASE RepositoryStep(c)
  BY <1>1, <1>5, <1>8, <1>9, <1>10, <1>15, ReadersEnd, PushEnds DEF RepositoryStep, Ends, watched,
     LoadRepository, ReadRepository, TestConnectionProbe, ListBranchesProbe
<1>16. CASE ArticlesStep(c)
  BY <1>1, <1>4, <1>11, <1>12, <1>16, ReadersEnd DEF ArticlesStep, Ends, watched,
     ArticleIdentifier, GenerateIdentifier, LoadArticle, UpdateArticleRead
<1> QED
  BY <1>1, <1>13, <1>14, <1>15, <1>16, ReadersEnd DEF ClientStep, Ends, watched

\* A step of client c keeps the identifiers apart.
LEMMA ClientIdentifies ==
  ASSUME Base, IdentifiersInv, NEW c \in Callers, Begin(c) \/ ClientStep(c)
  PROVE  IdentifiersInv'
<1>0. /\ CountersGrow /\ \A coll \in Collections : counters[coll] \in Nat /\ counters'[coll] \in Nat
      /\ Numbered \subseteq Collections
      /\ \A d \in Callers : CreatedIn(call[d].rpc) \in Numbered
  BY CounterWriters DEF Base, CountersOK, CountersGrow, Numbered, Collections, CreatedIn
<1>1. \A d \in Callers : d # c => call'[d] = call[d]
  BY ClientReplaces, ReplacesEffect DEF Base
<1>2. \A d \in Callers : CreatesProperly(call'[d])
  BY <1>1, ClientCreates DEF IdentifiersInv
<1>3. CASE call'[c].pc = "insert"
  <2> DEFINE coll == CreatedIn(call[c].rpc)
  <2>1. /\ Draws(c, coll) /\ call'[c].rpc = call[c].rpc /\ ~Answering(c)
        /\ call[c].rpc \in {"CreateUser", "CreateArticle"}
    BY <1>3, InsertWasDrawn, AnsweringEffect DEF Base
  <2>2. \A l \in Collections : DOMAIN docs'[l] = DOMAIN docs[l]
    BY <2>1, DomainEffect DEF IdentifiersInv
  <2>3. /\ call'[c].id \in Nat /\ counters[coll] < call'[c].id /\ counters'[coll] = call'[c].id
        /\ coll \in Numbered
    BY <1>0, <2>1 DEF Draws
  <2>4. \A l \in Numbered : \A i \in DOMAIN docs'[l] : i \in Nat /\ i <= counters'[l]
    BY <1>0, <2>2 DEF IdentifiersInv, CountersGrow
  <2>5. Drawn(call[c])'
    <3>1. call'[c].id \notin DOMAIN docs[coll]
      BY <1>0, <2>3 DEF IdentifiersInv
    <3>2. CreatedIn(call'[c].rpc) = coll
      BY <2>1
    <3> HIDE DEF coll
    <3> QED
      BY <1>0, <2>2, <2>3, <3>1, <3>2 DEF Drawn
  <2>6. ASSUME NEW d \in Callers, d # c
        PROVE  /\ Drawn(call[d])'
               /\ call[d].pc = "insert" /\ call[d].rpc = call[c].rpc => call[d].id # call'[c].id
    <3>1. Drawn(call[d]) /\ call'[d] = call[d] /\ CreatedIn(call[d].rpc) \in Numbered
      BY <1>0, <1>1, <2>6 DEF IdentifiersInv
    <3>2. Drawn(call[d])'
      BY <1>0, <2>2, <3>1 DEF Drawn, CountersGrow
    <3>3. CASE call[d].pc = "insert" /\ call[d].rpc = call[c].rpc
      <4>1. call[d].id \in Nat /\ call[d].id <= counters[coll]
        BY <3>1, <3>3 DEF Drawn
      <4> QED
        BY <1>0, <2>3, <3>2, <4>1
    <3> QED
      BY <3>2, <3>3
  <2> QED
    BY <1>1, <1>2, <2>1, <2>4, <2>5, <2>6 DEF IdentifiersInv
<1>4. CASE call'[c].pc # "insert"
  <2>1. Drawn(call[c])'
    BY <1>4 DEF Drawn
  <2>2. \A d, e \in Callers :
          d # e /\ call'[d].pc = "insert" /\ call'[e].pc = "insert" /\ call'[d].rpc = call'[e].rpc
             => call'[d].id # call'[e].id
    BY <1>1, <1>4 DEF IdentifiersInv
  <2>3. CASE \A l \in Collections : DOMAIN docs'[l] = DOMAIN docs[l]
    <3>1. ASSUME NEW d \in Callers, d # c PROVE Drawn(call[d])'
      <4>1. Drawn(call[d]) /\ call'[d] = call[d] /\ CreatedIn(call[d].rpc) \in Numbered
        BY <1>0, <1>1, <3>1 DEF IdentifiersInv
      <4> QED
        BY <1>0, <2>3, <4>1 DEF Drawn, CountersGrow
    <3>2. \A l \in Numbered : \A i \in DOMAIN docs'[l] : i \in Nat /\ i <= counters'[l]
      BY <1>0, <2>3 DEF IdentifiersInv, CountersGrow
    <3> QED
      BY <1>2, <2>1, <2>2, <3>1, <3>2 DEF IdentifiersInv
  <2>4. CASE /\ call[c].pc = "insert" /\ Adds(CreatedIn(call[c].rpc), call[c].id)
             /\ UNCHANGED counters
    <3>0. /\ Drawn(call[c]) /\ CreatesProperly(call[c]) /\ CreatedIn(call[c].rpc) \in Numbered
      BY <1>0 DEF IdentifiersInv
    <3>1. ASSUME NEW d \in Callers, d # c PROVE Drawn(call[d])'
      <4>1. Drawn(call[d]) /\ call'[d] = call[d] /\ CreatedIn(call[d].rpc) \in Numbered
            /\ CreatesProperly(call[d])
        BY <1>0, <1>1, <3>1 DEF IdentifiersInv
      <4>2. CASE call[d].pc = "insert" /\ call[d].rpc = call[c].rpc
        <5>1. call[d].id # call[c].id
          BY <2>4, <3>1, <4>2 DEF IdentifiersInv
        <5> QED
          BY <1>0, <2>4, <4>1, <4>2, <5>1 DEF Drawn, Adds
      <4>3. CASE call[d].pc = "insert" /\ call[d].rpc # call[c].rpc
        <5>1. CreatedIn(call[d].rpc) # CreatedIn(call[c].rpc)
          BY <2>4, <3>0, <4>1, <4>3 DEF CreatesProperly, CreatedIn
        <5> QED
          BY <1>0, <2>4, <4>1, <4>3, <5>1 DEF Drawn, Adds
      <4> QED
        BY <4>1, <4>2, <4>3 DEF Drawn
    <3>2. \A l \in Numbered : \A i \in DOMAIN docs'[l] : i \in Nat /\ i <= counters'[l]
      BY <1>0, <2>4, <3>0 DEF IdentifiersInv, Drawn, Adds
    <3> QED
      BY <1>2, <2>1, <2>2, <3>1, <3>2 DEF IdentifiersInv
  <2>5. CASE \E n \in Nat : /\ Adds("repositories", n) /\ counters["repositories"] < n
                            /\ counters' = [counters EXCEPT !["repositories"] = n]
    <3>1. PICK n \in Nat : /\ Adds("repositories", n) /\ counters["repositories"] < n
                           /\ counters' = [counters EXCEPT !["repositories"] = n]
      BY <2>5
    <3>2. counters'["repositories"] = n /\ \A l \in Collections : l # "repositories" => counters'[l] = counters[l]
      BY <3>1 DEF Base, CountersOK, Total, Collections
    <3>3. \A l \in Numbered : \A i \in DOMAIN docs'[l] : i \in Nat /\ i <= counters'[l]
      BY <1>0, <3>1, <3>2 DEF IdentifiersInv, Adds, CountersGrow
    <3>4. ASSUME NEW d \in Callers, d # c PROVE Drawn(call[d])'
      <4>1. Drawn(call[d]) /\ call'[d] = call[d] /\ CreatesProperly(call[d])
        BY <1>1, <3>4 DEF IdentifiersInv
      <4>2. CASE call[d].pc = "insert"
        <5>1. CreatedIn(call[d].rpc) \in Collections \ {"repositories"}
          BY <4>1, <4>2 DEF CreatesProperly, CreatedIn, Collections
        <5> QED
          BY <3>1, <3>2, <4>1, <5>1 DEF Drawn, Adds
      <4> QED
        BY <4>1, <4>2 DEF Drawn
    <3> QED
      BY <1>2, <2>1, <2>2, <3>3, <3>4 DEF IdentifiersInv
  <2> QED
    BY <2>3, <2>4, <2>5, DomainEffect DEF IdentifiersInv
<1> QED
  BY <1>3, <1>4

\* Every step keeps the identifiers that calls hold in order.
LEMMA NextIdentifiers == Base /\ IdentifiersInv /\ [Next]_vars => IdentifiersInv'
<1> SUFFICES ASSUME Base, IdentifiersInv, [Next]_vars PROVE IdentifiersInv'
  OBVIOUS
<1>1. CASE Elapses \/ UNCHANGED vars
  BY <1>1, ElapsesEffect DEF IdentifiersInv, Drawn
<1> QED
  BY <1>1, ClientIdentifies, NextCases

\* No call holds an identifier at the start.
LEMMA InitIdentifiers == Init => IdentifiersInv
<1> SUFFICES ASSUME Init PROVE IdentifiersInv
  OBVIOUS
<1>1. \A c \in Callers : call[c].pc = "idle" /\ call[c].rpc = "none"
  BY DEF Init, IdleCall
<1>2. \A coll \in Numbered : \A i \in DOMAIN docs[coll] : i \in Nat /\ i <= counters[coll]
  BY DEF Init, Numbered, Only, alice, root
<1> QED
  BY <1>1, <1>2 DEF IdentifiersInv, CreatesProperly, Drawn

\* The step by which a call is refused as a duplicate.
LEMMA Refusers ==
  ASSUME Base, IdentifiersInv, [Next]_vars, NEW c \in Callers, Answers(c, "AlreadyExists")
  PROVE  InsertUser(c) \/ InsertArticle(c) \/ CreateRepository(c)
<1>1. ASSUME NEW out, Answer(c, out) PROVE out = "AlreadyExists"
  <2>1. call'[c] = Answered(out)
    BY <1>1 DEF Answer, Base, Shaped, Total
  <2>2. Answered(out).out = out
    BY DEF Answered, IdleCall
  <2> QED
    BY <2>1, <2>2 DEF Answers
<1>2. call'[c] # call[c] /\ call'[c].pc = "idle"
  BY DEF Answers
<1>3. ASSUME NEW d \in Callers, Begin(d) \/ ClientStep(d) PROVE d = c
  BY <1>2, <1>3, ClientReplaces, ReplacesEffect DEF Base
<1>4. Begin(c) \/ ClientStep(c)
  BY <1>2, <1>3, ElapsesEffect, NextCases
<1>5. ~Begin(c) 
  BY DEF Begin, Answers
<1>6. ~Travels(c)
  <2>1. AfterSession(call[c].rpc) # "idle"
    BY DEF AfterSession
  <2> QED
    BY <1>2, <2>1 DEF Travels, Identifies, Draws, MovesTo, Copies, Probes
<1>7. ASSUME NEW pc, Goto(c, pc) PROVE pc = "idle"
  BY <1>2, <1>7, GotoMoves DEF MovesTo, Base
<1>8. Total(call, Callers) /\ Total(call[c], CallFields) /\ CreatesProperly(call[c])
  BY DEF Base, Shaped, IdentifiersInv
<1>13. ASSUME NEW coll, GenerateIdentifier(c, coll) PROVE FALSE
  <2>1. ASSUME NEW i, call' = [call EXCEPT ![c].id = i, ![c].pc = "insert"] PROVE FALSE
    <3>1. call'[c] = [call[c] EXCEPT !.id = i, !.pc = "insert"]
      BY <1>8, <2>1 DEF Total
    <3> QED
      BY <1>2, <1>8, <3>1 DEF Total, CallFields
  <2>2. \A n : call' # [call EXCEPT ![c].attempt = n, ![c].pc = "seed"]
    BY <1>2, <1>8 DEF Total, CallFields
  <2>3. ~IncrementFirst(c, coll)
    BY <2>1, <2>2 DEF IncrementFirst
  <2>4. ~SeedCounter(c, coll)
    BY <1>1, <1>7, <2>1 DEF SeedCounter
  <2>5. ~IncrementAgain(c, coll)
    BY <1>1, <2>1, <2>2 DEF IncrementAgain
  <2> QED
    BY <1>13, <2>3, <2>4, <2>5 DEF GenerateIdentifier
<1>9. CASE IdentityStep(c)
  <2>1. ~RejectUser(c) /\ ~GetUser(c) /\ ~ListUsers(c)
    BY <1>1 DEF RejectUser, GetUser, ListUsers
  <2>2. ~VerifyToken(c) /\ ~RefreshUser(c)
    BY <1>1, <1>7 DEF VerifyToken, RefreshUser
  <2>3. ~LogoutDelete(c) /\ ~LogoutUnlist(c) /\ ~LogoutBan(c)
    BY <1>1, <1>7 DEF LogoutDelete, LogoutUnlist, LogoutBan
  <2>4. ~UpdateUserWrite(c) /\ ~DeleteUser(c) /\ ~ListSession(c) /\ ~RefreshRevoke(c)
    BY <1>1 DEF UpdateUserWrite, DeleteUser, ListSession, RefreshRevoke
  <2>5. ~LoadSession(c)
    <3>1. AfterSession(call[c].rpc) # "idle"
      BY DEF AfterSession
    <3> QED
      BY <1>1, <1>2, <1>8, <3>1 DEF LoadSession, Total, CallFields
  <2>6. ~UpdateUserRead(c) /\ ~SaveSession(c)
    BY <1>1, <1>2, <1>8 DEF UpdateUserRead, SaveSession, Total, CallFields
  <2>7. ~ReadCredentials(c)
    <3>1. ASSUME NEW i, NEW b, call' = [call EXCEPT ![c].uid = i, ![c].sys = b, ![c].pc = "save"]
          PROVE  FALSE
      <4>1. call'[c] = [call[c] EXCEPT !.uid = i, !.sys = b, !.pc = "save"]
        BY <1>8, <3>1 DEF Total
      <4> QED
        BY <1>2, <1>8, <4>1 DEF Total, CallFields
    <3> DEFINE found == {i \in DOMAIN docs["users"] :
                           Live("users", i) /\ docs["users"][i].email = call[c].given.email}
               i == CHOOSE i \in found : TRUE
    <3>2. ReadCredentials(c) =>
             \/ \E out \in {"InvalidArgument", "Unauthenticated", "PermissionDenied"} : Answer(c, out)
             \/ call' = [call EXCEPT ![c].uid = i, ![c].sys = docs["users"][i].system_user,
                                     ![c].pc = "save"]
      BY DEF ReadCredentials
    <3> HIDE DEF i
    <3> QED
      BY <1>1, <3>1, <3>2
  <2>8. ~UserIdentifier(c)
    BY <1>13 DEF UserIdentifier
  <2> QED
    BY <1>9, <2>1, <2>2, <2>3, <2>4, <2>5, <2>6, <2>7, <2>8 DEF IdentityStep
<1>10. CASE RepositoryStep(c)
  <2>1. ~ListRepositories(c) /\ ~ProbeSourceRepository(c)
    BY <1>1 DEF ListRepositories, ProbeSourceRepository
  <2>2. ~PushNothing(c) /\ ~PushResult(c)
    BY <1>1 DEF PushNothing, PushResult, PushFailure, mapPushGRPCError
  <2>3. ~LoadRepository(c)
    BY <1>1, <1>7 DEF LoadRepository
  <2>4. ~ReadRepository(c)
    BY <1>1, <1>2, <1>8 DEF ReadRepository, Total, CallFields
  <2>5. ~UpdateRepositoryWrite(c) /\ ~DeleteRepository(c)
    BY <1>1 DEF UpdateRepositoryWrite, DeleteRepository
  <2>6. ~TestConnectionProbe(c) /\ ~ListBranchesProbe(c)
    BY <1>2, ProbeMoves DEF MovesTo, Base
  <2>7. ~PersistProbe(c)
    BY <1>1, <1>8 DEF PersistProbe, CreatesProperly, ProbeAnswers
  <2> QED
    BY <1>10, <2>1, <2>2, <2>3, <2>4, <2>5, <2>6, <2>7 DEF RepositoryStep
<1>11. CASE ArticlesStep(c)
  <2>1. ~RejectArticle(c) /\ ~ReadArticles(c)
    BY <1>1 DEF RejectArticle, ReadArticles
  <2>2. ~LoadArticle(c)
    BY <1>1, <1>7 DEF LoadArticle
  <2>3. ~UpdateArticleRead(c)
    BY <1>1, <1>2, <1>8 DEF UpdateArticleRead, Total, CallFields
  <2>4. ~UpdateArticleWrite(c) /\ ~DeleteArticle(c)
    BY <1>1 DEF UpdateArticleWrite, DeleteArticle
  <2>5. ~ArticleIdentifier(c)
    BY <1>13 DEF ArticleIdentifier
  <2> QED
    BY <1>11, <2>1, <2>2, <2>3, <2>4, <2>5 DEF ArticlesStep
<1>12. ~LoadMigration(c) /\ ~LoadSummary(c) /\ ~PassOn(c)
  BY <1>1 DEF LoadMigration, LoadSummary, PassOn
<1> QED
  BY <1>4, <1>5, <1>9, <1>10, <1>11, <1>12 DEF ClientStep

\* A creation refused as a duplicate meets a document with the same key: however
\* many callers make the counter at once, and whichever of their calls fail, the
\* identifier is never the one that collides.
THEOREM RefusalsAreHonest == Spec => CreateRefusalIsHonest
<1> DEFINE honest == \A c \in Callers : Answers(c, "AlreadyExists")
                       => KeyTaken(CreatedIn(call[c].rpc), Created(call[c]), 0)
<1>1. Base /\ IdentifiersInv /\ [Next]_vars => honest
  <2> SUFFICES ASSUME Base, IdentifiersInv, [Next]_vars, NEW c \in Callers,
                      Answers(c, "AlreadyExists")
               PROVE  KeyTaken(CreatedIn(call[c].rpc), Created(call[c]), 0)
    OBVIOUS
  <2>0. ASSUME NEW out, Answer(c, out) PROVE out = "AlreadyExists"
    <3>1. call'[c] = Answered(out)
      BY <2>0 DEF Answer, Base, Shaped, Total
    <3>2. Answered(out).out = out
      BY DEF Answered, IdleCall
    <3> QED
      BY <3>1, <3>2 DEF Answers
  <2>1. CreatesProperly(call[c]) /\ Drawn(call[c])
    BY DEF IdentifiersInv
  <2>2. CASE InsertUser(c)
    <3>1. DuplicateKey("users", call[c].id, call[c].given)
      BY <2>0, <2>2 DEF InsertUser
    <3>2. call[c].pc = "insert" /\ CreatedIn(call[c].rpc) = "users" /\ Created(call[c]) = call[c].given
      BY <2>2 DEF InsertUser, CreatedIn, Created
    <3> QED
      BY <2>1, <3>1, <3>2 DEF DuplicateKey, Drawn
  <2>3. CASE InsertArticle(c)
    <3> DEFINE d == [call[c].given EXCEPT !.owner = IF @ = 0 THEN call[c].uid ELSE @, !.state = "ACTIVE"]
    <3>1. DuplicateKey("articles", call[c].id, d)
      BY <2>0, <2>3 DEF InsertArticle
    <3>2. call[c].pc = "insert" /\ call[c].rpc = "CreateArticle" /\ CreatedIn(call[c].rpc) = "articles"
      BY <2>3 DEF InsertArticle, CreatedIn
    <3>3. KeyTaken("articles", d, 0)
      BY <2>1, <3>1, <3>2 DEF DuplicateKey, Drawn
    <3>4. d.slug = Created(call[c]).slug /\ d.owner = Created(call[c]).owner
      BY <2>1, <3>2 DEF CreatesProperly, Created, Total, ArticleRecord
    <3>5. KeyOf("articles", d) = KeyOf("articles", Created(call[c]))
      BY <3>4 DEF KeyOf
    <3> HIDE DEF d
    <3> QED
      BY <3>2, <3>3, <3>5 DEF KeyTaken
  <2>4. CASE CreateRepository(c)
    <3> DEFINE d == [call[c].given EXCEPT !.owner = IF @ = 0 THEN call[c].uid ELSE @]
               n == NextIdentifier("repositories")
    <3>1. DuplicateKey("repositories", n, d)
      BY <2>0, <2>4 DEF CreateRepository
    <3>2. CreatedIn(call[c].rpc) = "repositories" /\ Created(call[c]) = d
      BY <2>1, <2>4 DEF CreateRepository, CreatesProperly, CreatedIn, Created
    <3>3. n \notin DOMAIN docs["repositories"]
      <4>1. counters["repositories"] \in Nat /\ "repositories" \in Numbered
        BY DEF Base, CountersOK, Collections, Numbered
      <4>2. counters["repositories"] < n
        BY <4>1 DEF NextIdentifier, initialSequenceValue
      <4> HIDE DEF n
      <4>3. \A i \in DOMAIN docs["repositories"] : i \in Nat /\ i <= counters["repositories"]
        BY <4>1 DEF IdentifiersInv
      <4> QED
        BY <4>1, <4>2, <4>3
    <3> QED
      BY <3>1, <3>2, <3>3 DEF DuplicateKey
  <2> QED
    BY <2>2, <2>3, <2>4, Refusers
<1>2. Base /\ IdentifiersInv /\ [Next]_vars => [honest]_vars
  BY <1>1
<1> QED
  BY <1>2, InitBase, NextBase, InitIdentifiers, NextIdentifiers, PTL DEF Spec, CreateRefusalIsHonest

--------------------------------------------------------------------------------
(* Probes. *)

\* A pair of state and status that no client wrote.
Paired(d) ==
    \/ d.state = "UNSPECIFIED" /\ d.connection_status = "UNSPECIFIED"
    \/ Agrees(d)

\* A record is whole, and its pair is one that no client wrote unless one did.
RecordOK(i) ==
    LET d == docs["repositories"][i] IN
    Total(d, RepositoryRecord) /\ (~d.deleted /\ i \notin touched => Paired(d))

\* So is the copy that a probe or an update goes on with.
CopyOK(k) ==
    /\ k.pc = "probe" /\ k.rpc # "ProbeSourceRepository" => Total(k.doc, RepositoryRecord)
    /\ k.pc = "persist" => Total(k.doc, RepositoryRecord) /\ Agrees(k.doc)
    /\ k.pc = "store" =>
          /\ Total(k.doc, RepositoryRecord)
          /\ k.mask \cap {"state", "connection_status"} = {} /\ k.id \notin touched
                => Paired(k.doc)

PairsInv ==
    /\ \A i \in DOMAIN docs["repositories"] : RecordOK(i)
    /\ \A c \in Callers : CopyOK(call[c]) /\ CreatesProperly(call[c])

\* The step of a client takes a whole and honest copy, or none.
LEMMA ClientCopies ==
  ASSUME Base, PairsInv, NEW c \in Callers, Begin(c) \/ ClientStep(c)
  PROVE  CopyOK(call'[c])
<1> DEFINE k == call[c]
           l == call'[c]
<1>0. CopyOK(k)
  BY DEF PairsInv
<1>1. CASE l.pc \notin {"probe", "persist", "store"}
  BY <1>1 DEF CopyOK
<1>2. CASE Answering(c)
  BY <1>1, <1>2, AnsweringEffect DEF Base
<1>3. CASE Begin(c) /\ ~Answering(c)
  BY <1>1, <1>3, BeginEffect DEF Base, FirstStep
<1>4. CASE k.pc = "session" /\ MovesTo(c, AfterSession(k.rpc), {"uid", "sys"})
  <2>1. l.rpc = k.rpc /\ l.pc = AfterSession(k.rpc)
    BY <1>4 DEF MovesTo, CallFields
  <2>2. /\ AfterSession(k.rpc) \notin {"persist", "store"}
        /\ AfterSession(k.rpc) = "probe" => k.rpc = "ProbeSourceRepository"
    BY DEF AfterSession
  <2> QED
    BY <2>1, <2>2 DEF CopyOK
<1>5. CASE Live("repositories", k.id) /\ Copies(c)
  <2>0. RecordOK(k.id) /\ ~docs["repositories"][k.id].deleted
    BY <1>5 DEF PairsInv, Live
  <2>1. CASE MovesTo(c, "probe", {"doc"}) /\ l.doc = docs["repositories"][k.id]
    BY <2>0, <2>1 DEF CopyOK, RecordOK, MovesTo
  <2>2. CASE /\ MovesTo(c, "store", {"doc"})
             /\ l.doc = [f \in DOMAIN docs["repositories"][k.id] |->
                            IF f \in k.mask \cap RepositoryFields THEN k.given[f]
                            ELSE docs["repositories"][k.id][f]]
    <3>1. l.pc = "store" /\ l.mask = k.mask /\ l.id = k.id
      BY <2>2 DEF MovesTo, CallFields
    <3>2. DOMAIN docs["repositories"][k.id] = RepositoryRecord
      BY <2>0 DEF RecordOK, Total
    <3>3. Total(l.doc, RepositoryRecord)
      BY <2>2, <3>2 DEF Total
    <3>4. ASSUME k.mask \cap {"state", "connection_status"} = {}, k.id \notin touched
          PROVE  Paired(l.doc)
      <4>1. /\ l.doc.state = docs["repositories"][k.id].state
            /\ l.doc.connection_status = docs["repositories"][k.id].connection_status
        BY <2>2, <3>2, <3>4 DEF RepositoryRecord
      <4>2. Paired(docs["repositories"][k.id])
        BY <2>0, <3>4 DEF RecordOK
      <4> QED
        BY <4>1, <4>2 DEF Paired, Agrees
    <3> QED
      BY <3>1, <3>3, <3>4 DEF CopyOK
  <2> QED
    BY <1>5, <2>1, <2>2 DEF Copies
<1>6. CASE k.pc = "probe" /\ k.rpc # "ProbeSourceRepository" /\ Probes(c)
  BY <1>0, <1>6 DEF CopyOK, Probes, MovesTo
<1>7. CASE /\ Travels(c) /\ k.pc \notin {"session", "reread", "probe"}
  BY <1>1, <1>7 DEF Travels, Identifies, Draws, MovesTo
<1> QED
  BY <1>2, <1>3, <1>4, <1>5, <1>6, <1>7, StepKinds DEF Base, Travels, Identifies

\* Who writes records of repositories.
LEMMA RecordWriters ==
  ASSUME Base, NEW c \in Callers, Begin(c) \/ ClientStep(c)
  PROVE  \/ docs'["repositories"] = docs["repositories"] /\ UNCHANGED touched
         \/ CreateRepository(c) \/ UpdateRepositoryWrite(c) \/ DeleteRepository(c)
         \/ PersistProbe(c)
<1> USE DEF storeVars
<1>0. ASSUME NEW coll \in {"users", "articles"}, NEW id, NEW d, Write(coll, id, d)
      PROVE  docs'["repositories"] = docs["repositories"]
  BY <1>0 DEF Write, Base, Shaped, Total, Collections
<1>1. CASE Begin(c)
  BY <1>1 DEF Begin
<1>2. CASE IdentityStep(c)
  <2>1. CASE InsertUser(c) \/ UpdateUserWrite(c) \/ DeleteUser(c)
    BY <1>0, <2>1 DEF InsertUser, UpdateUserWrite, DeleteUser
  <2> QED
    BY <1>2, <2>1, ReadersEnd DEF IdentityStep, Ends, watched, VerifyToken,
       LoadSession, UserIdentifier, GenerateIdentifier, UpdateUserRead, ReadCredentials,
       SaveSession, ListSession, RefreshUser, RefreshRevoke, LogoutDelete, LogoutUnlist, LogoutBan
<1>3. CASE RepositoryStep(c)
  BY <1>3, ReadersEnd, PushEnds DEF RepositoryStep, Ends, watched, LoadRepository, ReadRepository,
     TestConnectionProbe, ListBranchesProbe
<1>4. CASE ArticlesStep(c)
  <2>1. CASE InsertArticle(c) \/ UpdateArticleWrite(c) \/ DeleteArticle(c)
    BY <1>0, <2>1 DEF InsertArticle, UpdateArticleWrite, DeleteArticle
  <2> QED
    BY <1>4, <2>1, ReadersEnd DEF ArticlesStep, Ends, watched, ArticleIdentifier,
       GenerateIdentifier, LoadArticle, UpdateArticleRead
<1> QED
  BY <1>1, <1>2, <1>3, <1>4, ReadersEnd DEF ClientStep, Ends, watched

\* Nobody takes back that a client wrote one of the two fields, and each write of
\* a record leaves a whole one behind.
LEMMA ClientPairs ==
  ASSUME Base, PairsInv, NEW c \in Callers, Begin(c) \/ ClientStep(c)
  PROVE  /\ touched \subseteq touched'
         /\ \A i \in DOMAIN docs'["repositories"] : RecordOK(i)'
<1> DEFINE k == call[c]
           repos == docs["repositories"]
<1>0. /\ CopyOK(k) /\ CreatesProperly(k) /\ Total(docs, Collections)
      /\ "repositories" \in Collections
      /\ \A i \in DOMAIN repos : RecordOK(i)
  BY DEF PairsInv, Base, Shaped, Collections
<1>1. CASE docs'["repositories"] = repos /\ UNCHANGED touched
  BY <1>0, <1>1 DEF RecordOK
<1>2. ASSUME NEW id, NEW d, Lawful("repositories", id), Write("repositories", id, d),
             touched \subseteq touched', Total(d, RepositoryRecord),
             ~d.deleted /\ id \notin touched' => Paired(d)
      PROVE  \A i \in DOMAIN docs'["repositories"] : RecordOK(i)'
  <2>1. /\ DOMAIN docs'["repositories"] = DOMAIN repos \cup {id}
        /\ docs'["repositories"][id] = d
        /\ \A i \in DOMAIN repos : i # id => docs'["repositories"][i] = repos[i]
    BY <1>0, <1>2, LawfulKeeps
  <2> QED
    BY <1>0, <1>2, <2>1 DEF RecordOK
<1>3. CASE CreateRepository(c)
  <2> DEFINE d == [k.given EXCEPT !.owner = IF @ = 0 THEN k.uid ELSE @]
             n == NextIdentifier("repositories")
  <2>1. CASE /\ ~DuplicateKey("repositories", n, d) /\ Write("repositories", n, d)
             /\ touched' = IF <<d.state, d.connection_status>> = <<"UNSPECIFIED", "UNSPECIFIED">>
                           THEN touched ELSE touched \cup {n}
    <3>1. Total(k.given, RepositoryRecord)
      BY <1>0, <1>3 DEF CreateRepository, CreatesProperly
    <3>2. Total(d, RepositoryRecord)
      BY <3>1 DEF Total, RepositoryRecord
    <3>3. Lawful("repositories", n)
      BY <2>1 DEF Lawful, DuplicateKey
    <3> HIDE DEF d, n
    <3>4. touched \subseteq touched' /\ (n \notin touched' => Paired(d))
      BY <2>1 DEF Paired
    <3> QED
      BY <1>2, <2>1, <3>2, <3>3, <3>4
  <2> QED
    BY <1>1, <1>3, <2>1 DEF CreateRepository, storeVars
<1>4. ASSUME Updatable(k.id, k.doc), Write("repositories", k.id, Stored(k.id, k.doc)),
             touched \subseteq touched', Total(k.doc, RepositoryRecord),
             k.id \notin touched' => Paired(k.doc)
      PROVE  \A i \in DOMAIN docs'["repositories"] : RecordOK(i)'
  <2> DEFINE d == Stored(k.id, k.doc)
  <2>1. /\ Total(d, RepositoryRecord)
        /\ d.state = k.doc.state /\ d.connection_status = k.doc.connection_status
    BY <1>4 DEF Stored, Total, RepositoryRecord
  <2>2. Lawful("repositories", k.id)
    BY <1>4 DEF Updatable, Lawful
  <2>3. k.id \notin touched' => Paired(d)
    BY <1>4, <2>1 DEF Paired, Agrees
  <2> HIDE DEF d
  <2> QED
    BY <1>2, <1>4, <2>1, <2>2, <2>3 DEF d
<1>5. CASE UpdateRepositoryWrite(c)
  <2>1. CASE /\ Updatable(k.id, k.doc) /\ Write("repositories", k.id, Stored(k.id, k.doc))
             /\ touched' = IF k.mask \cap {"state", "connection_status"} = {}
                           THEN touched ELSE touched \cup {k.id}
    <3>1. Total(k.doc, RepositoryRecord) /\ (k.id \notin touched' => Paired(k.doc))
      BY <1>0, <1>5, <2>1 DEF UpdateRepositoryWrite, CopyOK
    <3>2. touched \subseteq touched'
      BY <2>1
    <3> QED
      BY <1>4, <2>1, <3>1, <3>2
  <2> QED
    BY <1>1, <1>5, <2>1 DEF UpdateRepositoryWrite
<1>6. CASE DeleteRepository(c)
  <2> DEFINE d == [repos[k.id] EXCEPT !.deleted = TRUE, !.state = "DISCONNECTED"]
  <2>1. CASE Live("repositories", k.id) /\ Write("repositories", k.id, d)
    <3>1. Total(repos[k.id], RepositoryRecord)
      BY <1>0, <2>1 DEF Live, RecordOK
    <3>2. Total(d, RepositoryRecord) /\ d.deleted
      BY <3>1 DEF Total, RepositoryRecord
    <3>3. Lawful("repositories", k.id) /\ touched' = touched
      BY <1>6, <2>1 DEF Lawful, DeleteRepository
    <3> HIDE DEF d
    <3> QED
      BY <1>2, <2>1, <3>2, <3>3
  <2> QED
    BY <1>1, <1>6, <2>1 DEF DeleteRepository
<1>7. CASE PersistProbe(c)
  <2>1. Total(k.doc, RepositoryRecord) /\ Paired(k.doc) /\ touched' = touched
    BY <1>0, <1>7 DEF PersistProbe, CopyOK, Paired
  <2> QED
    BY <1>1, <1>4, <1>7, <2>1 DEF PersistProbe
<1> QED
  BY <1>1, <1>3, <1>5, <1>6, <1>7, RecordWriters

\* State and access of every repository agree at the start.
LEMMA InitPairs == Init => PairsInv
<1> SUFFICES ASSUME Init PROVE PairsInv
  OBVIOUS
<1>1. \A c \in Callers : call[c].pc = "idle" /\ call[c].rpc = "none"
  BY DEF Init, IdleCall
<1>2. docs["repositories"] = Only(10001, Repository(alice, "url"))
  BY DEF Init
<1>3. Total(Repository(alice, "url"), RepositoryRecord) /\ Paired(Repository(alice, "url"))
  BY DEF Repository, Total, RepositoryRecord, Paired
<1>4. \A i \in DOMAIN docs["repositories"] : docs["repositories"][i] = Repository(alice, "url")
  BY <1>2 DEF Only
<1> QED
  BY <1>1, <1>3, <1>4 DEF PairsInv, RecordOK, CopyOK, CreatesProperly

\* Every step keeps state and access of a repository in agreement.
LEMMA NextPairs == Base /\ PairsInv /\ [Next]_vars => PairsInv'
<1> SUFFICES ASSUME Base, PairsInv, [Next]_vars PROVE PairsInv'
  OBVIOUS
<1>1. CASE Elapses \/ UNCHANGED vars
  BY <1>1, ElapsesEffect DEF PairsInv, RecordOK, CopyOK
<1>2. ASSUME NEW c \in Callers, Begin(c) \/ ClientStep(c)
      PROVE  PairsInv'
  <2>1. touched \subseteq touched' /\ \A i \in DOMAIN docs'["repositories"] : RecordOK(i)'
    BY <1>2, ClientPairs
  <2>2. CopyOK(call'[c]) /\ CreatesProperly(call'[c])
    BY <1>2, ClientCopies, ClientCreates DEF PairsInv
  <2>3. \A d \in Callers : d # c => call'[d] = call[d]
    BY <1>2, ClientReplaces, ReplacesEffect DEF Base
  <2>4. ASSUME NEW d \in Callers PROVE CopyOK(call[d])' /\ CreatesProperly(call'[d])
    BY <2>1, <2>2, <2>3 DEF PairsInv, CopyOK
  <2> QED
    BY <2>1, <2>4 DEF PairsInv
<1> QED
  BY <1>1, <1>2, NextCases

\* The state and the connection status of a repository tell the same story after
\* any interleaving of probes, updates and deletions, unless a client wrote one of
\* them itself: a probe writes both, from the answer it got.
THEOREM ProbesStayInSync == Spec => []ProbePairInSync
<1>1. PairsInv => ProbePairInSync
  BY DEF PairsInv, RecordOK, Paired, Agrees, ProbePairInSync
<1> QED
  BY <1>1, InitBase, NextBase, InitPairs, NextPairs, PTL DEF Spec
================================================================================
