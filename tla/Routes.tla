------------------------------- MODULE Routes -------------------------------
(***************************************************************************)
(* The addresses of the application's pages: the builders that write a     *)
(* page and its fields into an address, the parser that reads the page     *)
(* back from it, and the handlers of the shell that go from one page to    *)
(* another.  The two sides are separate tables in the code and are kept    *)
(* separate here.                                                          *)
(*                                                                         *)
(* An address is its owner (the /web/app or the /web prefix), the segments *)
(* after the prefix, the query and the comment of the hash ("" for none).  *)
(* Numbers are text, as they are in an address.                            *)
(***************************************************************************)
EXTENDS Naturals, Sequences, TLC

CONSTANT Sample   \* for each field, the values pages are asked for with

VARIABLES asked,     \* the page the last navigation was to show
          address,   \* the address it went to
          page       \* the page the shell read from the address
routeVars == <<asked, address, page>>

Owners == {"app", "web"}
Numerals == {"0", "1", "2", "10", "20"}
Positive == Numerals \ {"0"}

normalizePositiveInt(value, fallback) ==
  IF value \in Positive THEN value ELSE fallback
normalizeFilter(value) ==
  CASE value \in {"unread", "read"} -> value
    [] value \in {"pending", "pending_discussion"} -> "pending"
    [] OTHER -> "all"
normalizeTab(tab) ==
  CASE tab \in {"files", "resources"} -> "time"
    [] tab \in {"members", "cycles", "time"} -> tab
    [] OTHER -> "info"

\* trim(), toUpperCase() and encodeURIComponent() on the values of Sample.
Trimmed == (" " :> "" @@ " x" :> "x")
Upper == ("x" :> "X" @@ "p1" :> "P1")
Encoded == ("a/b" :> "a%2Fb")
Decoded == ("a%2Fb" :> "a/b")
Image(table, value) == IF value \in DOMAIN table THEN table[value] ELSE value
trim(value) == Image(Trimmed, value)

-----------------------------------------------------------------------------
(* The builders. *)

Pages == {"page", "per_page"}
Filters == {"q", "status", "priority", "assignee_username", "project_key",
            "cycle_id", "sort"}
To(path, params) == [path |-> path, params |-> params]

\* The names that stand for a part of the path.
Keys == {"projectKey", "itemKey"}
Ids == {"cycleId", "resourceId"}

SystemBuilders ==
     "system-dashboard" :> To(<<"system">>, {})
  @@ "system-users" :> To(<<"system", "users">>, Pages)
  @@ "system-permissions" :> To(<<"system", "permissions">>, {"q"})
  @@ "system-roles" :> To(<<"system", "roles">>, {"role"} \cup Pages)
  @@ "system-storage" :> To(<<"system", "storage">>, Pages)
  @@ "system-openapi" :> To(<<"system", "openapi">>, {})
  @@ "system-api-docs" :> To(<<"system", "api-docs">>, {})
  @@ "system-database-stats" :> To(<<"system", "database-stats">>, {})
  @@ "system-audit" :>
       To(<<"system", "audit">>, {"actor", "action", "target_type", "target_id"} \cup Pages)
  @@ "system-releases" :> To(<<"system", "releases">>, Pages)
OwnBuilders ==
     "home" :> To(<< >>, {})
  @@ "profile" :> To(<<"me">>, {})
  @@ "time-management" :> To(<<"time-management">>, {})
  @@ "search" :> To(<<"search">>, {"q"} \cup Pages)
  @@ "messages" :> To(<<"messages">>, {"filter"} \cup Pages)
ProjectBuilders ==
     "projects" :> To(<<"projects">>, {"status", "q"} \cup Pages)
  @@ "project-detail" :> To(<<"projects", "projectKey">>, {"tab"})
  @@ "project-resource-library" :> To(<<"projects", "projectKey", "resources">>, {})
  @@ "project-cycle-detail" :> To(<<"projects", "projectKey", "cycles", "cycleId">>, {})
  @@ "project-resource-detail" :>
       To(<<"projects", "projectKey", "resources", "resourceId">>, {})
  @@ "project-personal-analysis" :> To(<<"projects", "projectKey", "my-analysis">>, {})
WorkItemBuilders ==
     "requirements" :> To(<<"requirements">>, Filters \cup Pages)
  @@ "tasks" :> To(<<"tasks">>, Filters \cup Pages)
  @@ "bugs" :> To(<<"bugs">>, Filters \cup Pages)
  @@ "work-item-detail" :> To(<<"work-items", "itemKey">>, {})
Builders == SystemBuilders @@ OwnBuilders @@ ProjectBuilders @@ WorkItemBuilders

-----------------------------------------------------------------------------
(* The parser's rows, in their order. *)

Reads(id, pattern, params) == [id |-> id, pattern |-> pattern, params |-> params]
ParserHead == <<
  Reads("home", << >>, {}),
  Reads("messages", <<"messages">>, {"filter", "page", "per_page"}),
  Reads("search", <<"search">>, {"q", "page", "per_page"}),
  Reads("profile", <<"me">>, {}),
  Reads("system-dashboard", <<"system">>, {}),
  Reads("system-users", <<"system", "users">>, {"page", "per_page"}),
  Reads("system-permissions", <<"system", "permissions">>, {"q"}),
  Reads("system-roles", <<"system", "roles">>, {"role", "page", "per_page"}),
  Reads("system-roles", <<"system", "roles", "role", "permissions">>, {"page", "per_page"}),
  Reads("system-storage", <<"system", "storage">>, {"page", "per_page"}),
  Reads("system-openapi", <<"system", "openapi">>, {}),
  Reads("system-api-docs", <<"system", "api-docs">>, {}),
  Reads("system-database-stats", <<"system", "database-stats">>, {}),
  Reads("system-audit", <<"system", "audit">>,
        {"actor", "action", "target_type", "target_id", "page", "per_page"}),
  Reads("system-releases", <<"system", "releases">>, {"page", "per_page"}),
  Reads("time-management", <<"time-management">>, {}) >>
ListParams == {"q", "status", "priority", "assignee_username", "project_key", "cycle_id",
               "sort", "page", "per_page"}
ParserTail == <<
  Reads("projects", <<"projects">>, {"status", "q", "page", "per_page"}),
  Reads("project-resource-library", <<"projects", "projectKey", "resources">>, {}),
  Reads("project-detail", <<"projects", "projectKey">>, {"tab"}),
  Reads("project-resource-detail", <<"projects", "projectKey", "resources", "resourceId">>, {}),
  Reads("project-personal-analysis", <<"projects", "projectKey", "my-analysis">>, {}),
  Reads("project-cycle-detail", <<"projects", "projectKey", "cycles", "cycleId">>, {}),
  Reads("requirements", <<"requirements">>, ListParams),
  Reads("tasks", <<"tasks">>, ListParams),
  Reads("bugs", <<"bugs">>, ListParams),
  Reads("work-item-detail", <<"work-items", "itemKey">>, {}) >>
Parsers == ParserHead \o ParserTail

-----------------------------------------------------------------------------
(* Pages. *)

\* The fields of a page: what its builder takes and what its parser gives.
RowsOf(id) == {Builders[id]} \cup
  {To(Parsers[i].pattern, Parsers[i].params) : i \in {j \in DOMAIN Parsers : Parsers[j].id = id}}
Wild == Keys \cup Ids \cup {"role"}
FieldsOf(id) ==
  UNION {row.params \cup ({row.path[i] : i \in DOMAIN row.path} \cap Wild) : row \in RowsOf(id)}
    \cup (IF id = "work-item-detail" THEN {"comment"} ELSE {})
Default(field) ==
  CASE field = "page" -> "1" [] field = "per_page" -> "10"
    [] field \in {"cycle_id", "cycleId", "resourceId"} -> "0"
    [] field = "filter" -> "all" [] field = "tab" -> "info"
    [] OTHER -> ""
Page(id, owner, fields) ==
  [id |-> id, owner |-> owner,
   fields |-> [f \in FieldsOf(id) |-> IF f \in DOMAIN fields THEN fields[f] ELSE Default(f)]]

-----------------------------------------------------------------------------
(* Building an address. *)

\* What a builder puts in the query for a parameter; the default is left out.
Written(id, param, value) ==
  CASE param \in Pages \cup {"cycle_id"} -> normalizePositiveInt(value, Default(param))
    [] param = "filter" -> normalizeFilter(value)
    [] param = "tab" -> normalizeTab(value)
    [] param = "priority" -> Image(Upper, trim(value))
    [] id = "projects" /\ param = "status" /\ trim(value) = "all" -> ""
    [] OTHER -> trim(value)
Query(id, fields) ==
  LET given == {p \in Builders[id].params : Written(id, p, fields[p]) # Default(p)}
  IN  [p \in given |-> Written(id, p, fields[p])]
PathOf(id, fields) ==
  [i \in DOMAIN Builders[id].path |->
     LET part == Builders[id].path[i]
     IN  IF part \in Keys THEN Image(Encoded, trim(fields[part]))
         ELSE IF part \in Ids THEN fields[part] ELSE part]

\* A page without its key or its number falls back to the list it is in.
Lacks(p, f) ==
  /\ f \in DOMAIN p.fields
  /\ IF f \in Keys THEN trim(p.fields[f]) = "" ELSE p.fields[f] \notin Positive
Target(p) ==
  IF Lacks(p, "itemKey") THEN Page("tasks", p.owner, << >>)
  ELSE IF Lacks(p, "projectKey") THEN Page("projects", p.owner, << >>)
  ELSE IF Lacks(p, "cycleId")
  THEN Page("project-detail", p.owner,
            "projectKey" :> p.fields["projectKey"] @@ "tab" :> "cycles")
  ELSE IF Lacks(p, "resourceId")
  THEN Page("project-resource-library", p.owner, "projectKey" :> p.fields["projectKey"])
  ELSE p
CommentOf(p) ==
  IF p.id = "work-item-detail" THEN normalizePositiveInt(p.fields["comment"], "") ELSE ""
Address(p) ==
  LET target == Target(p)
  IN  [owner |-> p.owner, path |-> PathOf(target.id, target.fields),
       query |-> Query(target.id, target.fields), comment |-> CommentOf(target)]

-----------------------------------------------------------------------------
(* Reading one: the first row whose pattern fits the path. *)

Fits(row, path) ==
  \/ /\ Len(row.pattern) = Len(path)
     /\ \A i \in DOMAIN path :
          IF row.pattern[i] \in Ids THEN path[i] \in Numerals
          ELSE row.pattern[i] \in Wild \/ row.pattern[i] = path[i]
  \/ row.id = "messages" /\ path # << >> /\ Head(path) = "messages"

\* What the parser makes of a parameter that is there, or is not.
ReadParam(param, query) ==
  LET value == IF param \in DOMAIN query THEN query[param] ELSE ""
  IN  CASE param \in Pages \cup {"cycle_id"} -> normalizePositiveInt(value, Default(param))
        [] param = "filter" -> normalizeFilter(value)
        [] param = "tab" -> normalizeTab(value)
        [] param = "priority" -> Image(Upper, trim(value))
        [] OTHER -> trim(value)
parseAppRoute(a) ==
  LET fitting == {i \in DOMAIN Parsers : Fits(Parsers[i], a.path)}
      row == Parsers[CHOOSE i \in fitting : \A j \in fitting : i <= j]
      keys == [f \in {row.pattern[i] : i \in DOMAIN row.pattern} \cap Wild |->
                 LET part == a.path[CHOOSE i \in DOMAIN row.pattern : row.pattern[i] = f]
                 IN  IF f \in Ids THEN normalizePositiveInt(part, "0") ELSE Image(Decoded, part)]
  IN  IF fitting = {}
        THEN [id |-> "unsupported", owner |-> a.owner, fields |-> << >>]
        ELSE Page(row.id, a.owner,
                  keys @@ [p \in row.params |-> ReadParam(p, a.query)]
                       @@ "comment" :> normalizePositiveInt(a.comment, ""))

-----------------------------------------------------------------------------
(* The shell. *)

Show(wanted, a) == asked' = wanted /\ address' = a /\ page' = parseAppRoute(a)
Navigate(p) == Show(p, Address(p))

RouteInit ==
  \E owner \in Owners :
    LET home == Page("home", owner, << >>)
    IN  asked = home /\ address = Address(home) /\ page = parseAppRoute(address)

\* A link, a menu entry or a form of the shell: some page with some fields.
Variations(id) ==
  {<< >>} \cup UNION {{f :> v : v \in Sample[f]} : f \in FieldsOf(id)}
    \cup {[f \in FieldsOf(id) |-> CHOOSE v \in Sample[f] : v # Default(f)]}
Go ==
  \E id \in DOMAIN Builders, owner \in {page.owner, "app"} :
    \E fields \in Variations(id) : Navigate(Page(id, owner, fields))

\* The fields each list's pager hands to the builder besides the page.  Where
\* it takes per_page from the server's answer and not from the address, the
\* server has answered with the number it was asked for.
ItemPager == {"q", "status", "priority", "assignee_username", "project_key", "cycle_id",
              "sort", "per_page"}
PagerPassesForgetful == [
  messages |-> {"filter", "per_page"}, projects |-> {"status", "per_page"},
  search |-> {"q", "per_page"}, requirements |-> ItemPager, tasks |-> ItemPager,
  bugs |-> ItemPager \ {"cycle_id"}]
PagerPasses == [
  messages |-> {"filter", "per_page"}, projects |-> {"status", "per_page"},
  search |-> {"q", "per_page"},
  requirements |-> ItemPager, tasks |-> ItemPager, bugs |-> ItemPager]
SystemPagerPasses ==
     "system-users" :> {"per_page"} @@ "system-roles" :> {"role", "per_page"}
  @@ "system-storage" :> {"per_page"} @@ "system-releases" :> {"per_page"}
  @@ "system-audit" :> {"actor", "action", "target_type", "target_id", "per_page"}
Passes == PagerPasses @@ SystemPagerPasses

\* The pager of the projects forgets the text searched for.
Forgotten(id) == IF id = "projects" THEN {"q"} ELSE {}
With(changed) ==
  [page EXCEPT !.fields = [f \in DOMAIN @ |-> IF f \in DOMAIN changed THEN changed[f]
                                               ELSE IF f \in Forgotten(page.id) THEN ""
                                               ELSE @[f]]]
Handed(passed, changed) ==
  Address(Page(page.id, page.owner, changed @@ [f \in passed |-> page.fields[f]]))

\* The role that get_system_roles_view selects: the one asked for, if there is
\* such a role, and else the first of the list, which may be empty.
FirstRoles == {"", "admin"}
Selected(role) == FirstRoles \cup (IF role = "" THEN {} ELSE {role})
\* The roles' pager hands on the role that the server selected.
OnScreen ==
  IF page.id = "system-roles" THEN {"role" :> r : r \in Selected(page.fields["role"])}
  ELSE {<< >>}

\* changeMessagePage, changeProjectPage, changeWorkItemPage and the pagers in line.
ChangePage(n) ==
  /\ page.id \in DOMAIN Passes
  /\ \E seen \in OnScreen :
       Show(With("page" :> n @@ seen), Handed(Passes[page.id], "page" :> n @@ seen))
\* changeMessagePageSize and its likes start again at the first page; search has none.
ChangePageSize(n) ==
  /\ page.id \in DOMAIN Passes \ {"search"}
  /\ \E seen \in OnScreen :
       Show(With("page" :> "1" @@ "per_page" :> n @@ seen),
            Handed(Passes[page.id] \ {"per_page"}, "per_page" :> n @@ seen))
changeMessageFilter(filter) ==
  /\ page.id = "messages" /\ filter # page.fields["filter"]
  /\ Show(With("filter" :> filter @@ "page" :> "1"),
          Handed({"per_page"}, "filter" :> filter @@ "page" :> "1"))
submitProjectSearch(text) ==
  /\ page.id = "projects"
  /\ Show(With("q" :> trim(text) @@ "page" :> "1"),
          Handed({"status", "per_page"}, "q" :> text @@ "page" :> "1"))

ItemLists == {"requirements", "tasks", "bugs"}
FormFields == {"q", "status", "priority", "assignee_username", "cycle_id", "sort"}
submitWorkItemFilters(values) ==
  LET entered == "page" :> "1" @@ values @@ [f \in FormFields |-> Default(f)]
  IN  /\ page.id \in ItemLists
      /\ Show(With(entered), Handed({"project_key", "per_page"}, entered))
resetWorkItemFilters ==
  LET cleared == FieldsOf(page.id) \ {"project_key"}
  IN  /\ page.id \in ItemLists
      /\ Show(With([f \in cleared |-> Default(f)]), Handed({"project_key"}, << >>))

\* handleSetCurrentProject: the same kind of page, of the other project.
AcrossProjects == {"q", "status", "priority", "assignee_username", "sort", "per_page"}
SwitchProject(key) ==
  \/ /\ page.id \in ItemLists
     /\ Show(With("project_key" :> key @@ "cycle_id" :> "0" @@ "page" :> "1"),
             Handed(AcrossProjects, "project_key" :> key))
  \/ /\ page.id \in {"project-resource-library", "project-resource-detail"}
     /\ Navigate(Page("project-resource-library", page.owner, "projectKey" :> key))
  \/ /\ page.id = "project-personal-analysis"
     /\ Navigate(Page(page.id, page.owner, "projectKey" :> key))
  \/ /\ page.id = "project-cycle-detail"
     /\ Navigate(Page("project-detail", page.owner, "projectKey" :> key @@ "tab" :> "cycles"))
  \/ /\ page.id = "project-detail"
     /\ Navigate(Page(page.id, page.owner, "projectKey" :> key @@ "tab" :> page.fields["tab"]))

\* routePathForOwner: a link the server wrote is for /web and is moved under
\* the prefix of the window; any other link leads home.
routePathForOwner(kind, a) ==
  IF kind = "web" THEN [a EXCEPT !.owner = page.owner]
  ELSE Address(Page("home", page.owner, << >>))
FollowLink ==
  \E p \in {Page("work-item-detail", "web", "itemKey" :> "k" @@ "comment" :> "2"),
            Page("project-resource-detail", "web", "projectKey" :> "a/b" @@ "resourceId" :> "2")},
     kind \in {"web", "app", "foreign"} :
    Show(IF kind = "web" THEN [p EXCEPT !.owner = page.owner] ELSE Page("home", page.owner, << >>),
         routePathForOwner(kind, Address(p)))

\* notificationTargetPath: the item and comment, or the messages without an item.
OpenNotification ==
  \E key \in {"", "k"}, comment \in {"", "2"} :
    Navigate(IF key = "" THEN Page("messages", page.owner, << >>)
             ELSE Page("work-item-detail", page.owner, "itemKey" :> key @@ "comment" :> comment))

\* Addresses kept from earlier versions, and one no page has.
Old(owner) == {
  <<Page("system-roles", owner, "role" :> "x"), <<"system", "roles", "x", "permissions">>, << >>>>,
  <<Page("messages", owner, << >>), <<"messages", "x">>, << >>>>,
  <<Page("messages", owner, "filter" :> "pending"), <<"messages">>,
    "filter" :> "pending_discussion">>,
  <<Page("project-detail", owner, "projectKey" :> "k" @@ "tab" :> "time"), <<"projects", "k">>,
    "tab" :> "files">>,
  <<[id |-> "unsupported", owner |-> owner, fields |-> << >>], <<"wiki">>, << >>>>}
OpenOld ==
  \E owner \in Owners : \E o \in Old(owner) :
    Show(o[1], [owner |-> owner, path |-> o[2], query |-> o[3], comment |-> ""])

RouteNext ==
  \/ Go \/ FollowLink \/ OpenNotification \/ OpenOld \/ resetWorkItemFilters
  \/ \E n \in Sample["page"] : ChangePage(n)
  \/ \E n \in Sample["per_page"] : ChangePageSize(n)
  \/ \E filter \in Sample["filter"] : changeMessageFilter(filter)
  \/ \E text \in Sample["q"] : submitProjectSearch(text)
  \/ \E f \in FormFields : \E v \in Sample[f] : submitWorkItemFilters(f :> v)
  \/ \E key \in Sample["projectKey"] \ {""} : SwitchProject(key)
RouteSpec == RouteInit /\ [][RouteNext]_routeVars

-----------------------------------------------------------------------------
\* What a field is worth, however it was written.
Meant(f, value) ==
  CASE f \in Pages \cup Ids \cup {"cycle_id", "comment"} -> normalizePositiveInt(value, Default(f))
    [] f = "filter" -> normalizeFilter(value)
    [] f = "tab" -> normalizeTab(value)
    [] f = "priority" -> Image(Upper, trim(value))
    [] OTHER -> trim(value)
Wanted(p) ==
  IF p.id = "unsupported" THEN p
  ELSE LET t == Target(p)
       IN  [t EXCEPT !.fields = [f \in DOMAIN @ |->
              IF t.id = "projects" /\ f = "status" /\ trim(@[f]) = "all" THEN ""
              ELSE Meant(f, @[f])]]

\* The shell shows the page that was asked for, with every filter, page
\* number, key and comment it was asked for with: what the builders of
\* routes.js write, parseAppRoute reads back, and a pager, a filter form or a
\* change of project keeps the fields it does not change.  The code makes two
\* exceptions: the text of the projects' search, which changeProjectPage
\* (app.jsx:5393) and changeProjectPageSize (app.jsx:5410) drop, and the role
\* of the roles' list, whose pager asks for the role on the screen
\* (app.jsx:6375-6376), one that the server selected if the address named none.
LandsWhereAsked == page = Wanted(asked)
=============================================================================
