--------------------------- MODULE MCDatabaseUpgrade ---------------------------
(***************************************************************************)
(* The databases DatabaseUpgrade starts on for TLC: every version that     *)
(* differs in its schema, and for the parts that transform rows, families  *)
(* that vary those rows alone.                                             *)
(***************************************************************************)
EXTENDS DatabaseUpgrade

CONSTANTS d1, d2, e1, e2, k1, k2, p1, p2, h1

MCOrgs == {1, 2}
MCUsers == {1, 2}
Documents == {d1, d2}

Request(i, uuid) == [id |-> i, org |-> 1, uuid |-> uuid]

Account(i, p, k) == [id |-> i, org |-> Null, provider |-> p, token |-> k, status |-> "ACTIVE"]

\* Two organizations with a job and evidence; older ones have documents of none.
Filled(v) ==
    LET b == Base(v)
        Row(x) == [id |-> x]
    IN  [b EXCEPT
           !.docs = [d \in Documents |-> IF v < 2 THEN Null ELSE 1],
           !.org[1].used = IF v < 13 THEN Absent ELSE 2,
           !.users = IF v < 12 THEN {} ELSE Users,
           !.admins = IF v < 12 THEN {} ELSE {2},
           !.history = {h1},
           !.now = [t \in Tables |->
               IF b.now[t] = NoTable THEN NoTable
               ELSE CASE t \in Evidence -> [b.now[t] EXCEPT !.rows = {Row(1), Row(2)}]
                      [] t = "document_requests" ->
                             [b.now[t] EXCEPT !.rows =
                                 {Request(i, IF v < 18 THEN "none" ELSE "own") : i \in {1, 2}}]
                      [] OTHER -> b.now[t]]]

Versions == {0, 1, 13, 14, 16, 17, 20, 21, 22, 23}

Plainly == {Filled(v) : v \in Versions \ {0}} \cup {Base(0), [Filled(1) EXCEPT !.version = 0]}

\* Profiles, closed organizations, users without an administrator.
Organizations ==
    {[Filled(13) EXCEPT !.org[1].template = t, !.org[1].status = s, !.admins = a] :
        t \in {"EMPTY", "STUDENT", "BUSINESS"}, s \in {"ACTIVE", "DELETED"}, a \in {{}, {1}}}

Transport ==
    {[Filled(v) EXCEPT !.endpoint = e, !.active = IF v < 17 THEN Null ELSE e,
                       !.jobs = {[id |-> 1, path |-> p, target |-> IF v < 17 THEN Null ELSE t]}] :
        v \in {16, 17, 20}, e \in {Null, e1}, p \in {Null, e1, e2}, t \in {Null, e1, e2}}

\* A job bound to a target has no path yet, or one under that target.
SoundTransport ==
    {d \in Transport : \A j \in d.jobs : j.target # Null => j.path \in {Null, j.target}}

\* Two organizations on any accounts, sharing one, or its secret, or neither.
Clouds ==
    {[Filled(20) EXCEPT
        !.org[2] = [@ EXCEPT !.status = "ACTIVE", !.enabled = {}, !.used = 0],
        !.now["cloud_accounts"].rows = {Account(1, p1, a), Account(2, p, b)},
        !.now["cloud_settings"].rows =
            {Setting(1, IF x = Null THEN "LOCAL" ELSE p1, x), Setting(2, p1, y)},
        !.now["cloud_folder_mappings"].rows = {[org |-> 2, provider |-> p1, account |-> z]}] :
        a \in {k1, Null}, b \in {k1, k2}, p \in {p1, p2},
        x \in {Null, 1, 2}, y \in {1, 2}, z \in {Null, 2}}

MCDatabases == Plainly \cup Organizations \cup SoundTransport \cup Clouds
=============================================================================
