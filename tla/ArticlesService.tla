---------------------------- MODULE ArticlesService ----------------------------
(***************************************************************************)
(* The articles service, the sample service the generator's prompts refer  *)
(* to: articles with soft deletion and tags that are only read.  Its       *)
(* WithTransaction opens a session and no transaction, so an identifier    *)
(* and the insert that uses it are steps of their own.                     *)
(***************************************************************************)
EXTENDS PlatformStore

\* CreateArticle without a slug or a title ends before an identifier is drawn.
RejectArticle(c) ==
    /\ call[c].pc = "identifier" /\ call[c].rpc = "CreateArticle" /\ call[c].given.slug = ""
    /\ Answer(c, "InvalidArgument")
    /\ UNCHANGED <<storeVars, sessionVars, tokenVars, target, calls, faults, touched>>

ArticleIdentifier(c) ==
    /\ call[c].rpc = "CreateArticle" /\ call[c].pc \in {"identifier", "seed", "increment"}
    /\ call[c].given.slug # ""
    /\ GenerateIdentifier(c, "articles")

\* CreateArticle: the caller is the author unless another is named, and the
\* state is ACTIVE whatever the request says.
InsertArticle(c) ==
    /\ call[c].pc = "insert" /\ call[c].rpc = "CreateArticle"
    /\ LET k == call[c]
           d == [k.given EXCEPT !.owner = IF @ = 0 THEN k.uid ELSE @, !.state = "ACTIVE"] IN
       \/ /\ ~DuplicateKey("articles", k.id, d)
          /\ Write("articles", k.id, d)
          /\ Answer(c, "OK")
          /\ UNCHANGED faults
       \/ /\ DuplicateKey("articles", k.id, d)
          /\ Answer(c, "AlreadyExists")
          /\ UNCHANGED <<docs, faults>>
       \/ /\ Fault
          /\ Answer(c, "Internal")
          /\ UNCHANGED docs
    /\ UNCHANGED <<counters, sessionVars, tokenVars, target, calls, touched>>

\* GetArticle, ListArticles, GetTag and ListTags serve every caller.
ReadArticles(c) ==
    /\ call[c].pc = "read"
    /\ call[c].rpc \in {"GetArticle", "ListArticles", "GetTag", "ListTags"}
    /\ LET k == call[c]
           coll == IF k.rpc = "GetTag" THEN "tags" ELSE "articles" IN
       Answer(c, IF k.rpc \in {"ListArticles", "ListTags"} THEN "OK"
                 ELSE IF k.id = 0 THEN "InvalidArgument"
                 ELSE IF Live(coll, k.id) THEN "OK" ELSE "NotFound")
    /\ UNCHANGED <<storeVars, sessionVars, tokenVars, target, calls, faults, touched>>

\* UpdateArticle and DeleteArticle are for the author and for system users.
LoadArticle(c) ==
    /\ call[c].pc = "load" /\ call[c].rpc \in {"UpdateArticle", "DeleteArticle"}
    /\ LET k == call[c] IN
       IF k.id = 0 THEN Answer(c, "InvalidArgument")
       ELSE IF ~Live("articles", k.id) THEN Answer(c, "NotFound")
       ELSE IF ~k.sys /\ docs["articles"][k.id].owner # k.uid THEN Answer(c, "PermissionDenied")
       ELSE Goto(c, IF k.rpc = "DeleteArticle" THEN "delete" ELSE "copy")
    /\ UNCHANGED <<storeVars, sessionVars, tokenVars, target, calls, faults, touched>>

\* No mask means all mutable fields.
ArticleFields == {"slug", "title", "state"}
applyArticleMask(old, new, mask) ==
    [f \in DOMAIN old |->
        IF f \in (IF mask = {} THEN ArticleFields ELSE mask \cap ArticleFields)
        THEN new[f] ELSE old[f]]

\* The copy that is changed and written back.
UpdateArticleRead(c) ==
    /\ call[c].pc = "copy"
    /\ IF ~Live("articles", call[c].id) THEN Answer(c, "NotFound")
       ELSE call' = [call EXCEPT
              ![c].doc = applyArticleMask(docs["articles"][call[c].id], call[c].given, call[c].mask),
              ![c].pc = "publish"]
    /\ UNCHANGED <<storeVars, sessionVars, tokenVars, target, calls, faults, touched>>

UpdateArticleWrite(c) ==
    /\ call[c].pc = "publish"
    /\ LET k == call[c]
           ok == Live("articles", k.id) /\ ~KeyTaken("articles", k.doc, k.id) IN
       \/ /\ ok
          /\ Write("articles", k.id, k.doc)
          /\ Answer(c, "OK")
          /\ UNCHANGED faults
       \/ /\ ~ok
          /\ Answer(c, IF Live("articles", k.id) THEN "Internal" ELSE "NotFound")
          /\ UNCHANGED <<docs, faults>>
       \/ /\ Fault
          /\ Answer(c, "Internal")
          /\ UNCHANGED docs
    /\ UNCHANGED <<counters, sessionVars, tokenVars, target, calls, touched>>

DeleteArticle(c) ==
    /\ call[c].pc = "delete" /\ call[c].rpc = "DeleteArticle"
    /\ \/ /\ Live("articles", call[c].id)
          /\ Write("articles", call[c].id,
                   [docs["articles"][call[c].id] EXCEPT !.deleted = TRUE, !.state = "DELETED"])
          /\ Answer(c, "OK")
       \/ /\ ~Live("articles", call[c].id)
          /\ Answer(c, "NotFound")
          /\ UNCHANGED docs
    /\ UNCHANGED <<counters, sessionVars, tokenVars, target, calls, faults, touched>>

ArticlesStep(c) ==
    \/ RejectArticle(c) \/ ArticleIdentifier(c) \/ InsertArticle(c)
    \/ ReadArticles(c) \/ LoadArticle(c)
    \/ UpdateArticleRead(c) \/ UpdateArticleWrite(c) \/ DeleteArticle(c)
================================================================================
