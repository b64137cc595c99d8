------------------------------- MODULE MCPlatform -------------------------------
(* Small instances of Platform: what clients ask for, and with which tokens.     *)
EXTENDS Platform

\* Sessions 1 and 2 are those of alice and root, later ones were logged in.
Nothing == {<<0, "none">>}
Anybody(grant) == (1 .. 2 + MaxCalls) \X {grant}
Alice == {<<1, "access">>}
Root == {<<2, "access">>}

Ask(rpc, with, id, given, fields) ==
    [rpc |-> rpc, with |-> with, id |-> id, bodyId |-> id, given |-> given,
     fields |-> fields, query |-> {}]
Plain(rpc, with, id) == Ask(rpc, with, id, NoDoc, {})
Login(email, password) ==
    Ask("AuthenticateUser", Nothing, 0, [email |-> email, password |-> password], {})

\* Accounts, log-in, refresh and log-out.
AccountRequests ==
    {Ask("CreateUser", Nothing, 0, User(e, FALSE), {}) : e \in {"", "alice", "carol"}}
    \cup {Login("alice", "right"), Login("alice", "wrong"), Login("", "right")}
    \cup {Plain("RefreshToken", Anybody("refresh"), 0), Plain("RefreshToken", Alice, 0),
          Plain("Logout", Anybody("access"), 0), Plain("GetCurrentUser", Alice \cup Nothing, 0),
          Plain("ListUsers", Root, 0), Plain("GetUser", Alice, root),
          Plain("DeleteUser", Anybody("access"), alice)}
    \cup {[Ask("UpdateUser", Alice, alice, User("alicia", FALSE), {"email"}) EXCEPT !.bodyId = root],
          Ask("UpdateUser", Root, alice, User("root", FALSE), {"email"}),
          [Ask("UpdateUser", Root, alice, [User("", FALSE) EXCEPT !.state = "SUSPENDED"], {"email", "state"})
             EXCEPT !.query = {"state"}]}

Article(owner, slug) ==
    [owner |-> owner, slug |-> slug, title |-> "t", state |-> "DRAFT", deleted |-> FALSE]

\* Repositories, articles, pushes and the handlers of the other services.
CatalogueRequests ==
    {Ask("CreateRepository", Alice, 0, Repository(0, u), {}) : u \in {"", "url", "other"}}
    \cup {Ask("UpdateRepository", Alice, 10001,
              [Repository(alice, "other") EXCEPT !.credential_ref = "token"], {f}) :
            f \in {"remote_url", "credential_ref"}}
    \cup {Ask("UpdateRepository", Root, 10001, [Repository(alice, "url") EXCEPT !.state = "ERROR"], {"state"})}
    \cup {Plain(rpc, Alice, 10001) :
            rpc \in {"GetRepository", "DeleteRepository", "TestConnection", "ListBranches",
                     "GetMigration", "DeleteArticle", "GetArticle"}}
    \cup {Plain(rpc, Root, 10001) : rpc \in {"StartMigration", "GetAnalysisSummary"}}
    \cup {Plain("ListRepositories", Alice, 0), Plain("RunAnalysis", Alice, 0)}
    \cup {Ask("PushResult", Root, 0, Repository(0, u), {}) : u \in {"", "url"}}
    \cup {Ask("ProbeSourceRepository", Alice, 0, Repository(0, "url"), {})}
    \cup {Ask("CreateArticle", w, 0, Article(0, "slug"), {}) : w \in {Alice, Root}}
    \cup {Ask("CreateArticle", Alice, 0, Article(0, ""), {}),
          Ask("UpdateArticle", Alice, 10001, Article(alice, "other"), {})}

Symmetry == Permutations(Callers)
================================================================================
