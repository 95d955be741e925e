-------------------------- MODULE DesktopRoutes --------------------------
(***************************************************************************)
(* The desktop renderer's API transport (renderer/platform/                *)
(* api-transport.js): the table that turns a request of the API client     *)
(* into an operation of the main process and its input.  The routes are    *)
(* tried in this order and the first one whose method and path match is    *)
(* taken.                                                                  *)
(***************************************************************************)
EXTENDS ApiClient

Project == <<"projects", "projectKey">>
Item == <<"work-items", "itemKey">>
SystemUser == <<"system", "users", "username">>
Release == <<"system", "releases", "releaseId">>

\* A route: the fields it lets through, whether it looks at them at all, the
\* ones it consumes, and the editor context it asks of the request.
Reading(path, keys, op) == [method |-> "GET", path |-> path, keys |-> keys,
                            strict |-> TRUE, drops |-> {}, context |-> "none", op |-> op]
Viewing(path, op) == [Reading(path, {}, op) EXCEPT !.strict = FALSE]
Writing(method, path, keys, op) == [Reading(path, keys, op) EXCEPT !.method = method]

CommentBody == {"body", "body_format", "parent_comment_id"}
CycleBody == {"description", "end_date", "goal", "name", "owner_username", "start_date"}

\* STATIC_ROUTES.
StaticRoutes == <<
  Reading(<<"auth", "me">>, {}, "identity.current"),
  Reading(<<"me", "profile">>, {}, "identity.profile"),
  Reading(<<"me", "tokens">>, {}, "identity.tokens"),
  Reading(<<"me", "device-sessions">>, {}, "identity.devicesessions"),
  Reading(<<"topbar", "status">>, {}, "shell.topbar"),
  Reading(<<"current-project">>, {}, "project.current"),
  Reading(<<"system", "dashboard">>, {}, "system.dashboard")>>

\* The reads of a project and of its parts.
ProjectReadRoutes == <<
  Reading(<<"projects">>, {"status", "page", "per_page"}, "project.list"),
  Reading(Project \o <<"members", "candidates">>, {}, "project.membercandidates"),
  Reading(Project \o <<"members">>, {}, "project.members"),
  Reading(Project \o <<"my-analysis">>, {}, "project.personalanalysis"),
  Reading(Project \o <<"cycles", "cycleId">>, {}, "project.cycledetail"),
  Reading(Project \o <<"cycles">>, {}, "project.cycles"),
  Reading(Project \o <<"attachments">>, {}, "project.attachments"),
  Reading(Resource \o <<"attachments">>, {"access"}, "project.resourceattachments"),
  Reading(Resource, {}, "project.resourcedetail"),
  Reading(Project \o <<"resources">>, {"q", "category", "status", "tag",
      "related_work_item_key", "related_cycle_id"}, "project.resources"),
  Reading(Project \o <<"resource-library", "linked-work-item-posts">>, {"q"},
      "project.resourcelinkedworkitemposts"),
  Reading(Project, {}, "project.detail")>>

\* The other reads; the views ignore whatever query they are given.
ReadRoutes == <<
  Reading(<<"search">>, {"q", "page", "per_page"}, "search.list"),
  Reading(<<"notifications">>, {"limit", "filter", "page", "per_page"},
      "notification.list"),
  Reading(<<"system", "users-view">>, {"page", "per_page"}, "system.usersview"),
  Viewing(<<"system", "permissions">>, "system.permissions"),
  Viewing(<<"system", "database-stats">>, "system.databasestats"),
  Reading(<<"system", "audit">>, {"actor", "action", "target_type", "target_id",
      "page", "per_page"}, "system.audit"),
  Viewing(<<"system", "api-docs-view">>, "system.apidocs"),
  Reading(<<"system", "roles-view">>, {"role", "page", "per_page"},
      "system.rolesview"),
  Reading(<<"system", "storage-view">>, {"page", "per_page"}, "system.storageview"),
  Viewing(<<"system", "openapi-view">>, "system.openapiview"),
  Reading(<<"system", "releases-view">>, {"page", "per_page"},
      "system.releasesview"),
  Reading(<<"work-item-list-view">>, {"item_type", "q", "status", "priority",
      "assignee_username", "project_key", "cycle_id", "sort", "clear_default",
      "page", "per_page"}, "workitem.listview"),
  Reading(<<"work-items">>, {"item_type", "q", "status", "priority",
      "assignee_username", "project_key", "cycle_id", "sort", "page", "per_page"},
      "workitem.list"),
  Reading(<<"notifications", "notificationId", "target">>, {},
      "notification.target"),
  Reading(CommentFiles, {}, "workitem.commentattachments"),
  Reading(<<"work-item-detail-view", "itemKey">>, {}, "workitem.detailview"),
  Reading(Item \o <<"resource-library-link">>, {},
      "workitem.resourcelibrarylinkstatus"),
  Reading(Comments, {}, "workitem.comments"),
  Reading(Item \o <<"attachments">>, {}, "workitem.attachments"),
  Reading(Item, {}, "workitem.detail")>>

\* The writes of the administration pages.
SystemRoutes == <<
  Writing("POST", <<"system", "api-tokens">>, {"name", "scopes"},
      "system.apitokencreate"),
  Writing("PATCH", <<"system", "api-tokens", "tokenId">>, {"name", "scopes"},
      "system.apitokenupdate"),
  Writing("DELETE", <<"system", "api-tokens", "tokenId">>, {},
      "system.apitokendelete"),
  Writing("POST", <<"storage", "config">>, {"access_key_id", "access_key_secret",
      "activate", "bucket", "endpoint", "region"}, "system.storagesave"),
  Writing("POST", <<"storage", "config", "probe">>, {}, "system.storageprobe"),
  Writing("POST", <<"storage", "config", "initialize">>, {},
      "system.storageinitialize"),
  Writing("POST", <<"storage", "config", "versions", "version", "rollback">>, {},
      "system.storagerollback"),
  Writing("PATCH", <<"system", "releases", "settings">>, {"retention_count"},
      "system.releasesettingsupdate"),
  Writing("POST", <<"system", "releases">>, {"channel", "manifest_sha256", "notes",
      "signing_key_id", "source_commit", "source_tag", "title", "version_name"},
      "system.releasecreate"),
  Writing("PATCH", Release, {"notes", "publish", "title", "version_name"},
      "system.releaseupdate"),
  Writing("POST", Release \o <<"verify">>, {}, "system.releaseverify"),
  [Writing("POST", Release \o <<"withdraw">>, {"github_withdrawal_status",
      "reason"},
      "system.releasewithdraw") EXCEPT !.drops = {"github_withdrawal_status"}],
  Writing("DELETE", Release \o <<"assets", "assetId">>, {},
      "system.releaseassetdelete"),
  Writing("POST", <<"system", "users">>, {"display_name", "email", "mobile",
      "password", "role_code", "username"}, "system.usercreate"),
  Writing("POST", <<"system", "roles">>, {"data_scope_type", "role_code",
      "role_name"}, "system.rolecreate"),
  Writing("PATCH", <<"system", "roles", "roleCode", "status">>, {"status"},
      "system.rolestatusupdate"),
  Writing("PATCH", <<"system", "roles", "roleCode", "permissions">>,
      {"permission_keys"}, "system.rolepermissionsupdate"),
  Writing("PATCH", SystemUser \o <<"status">>, {"status"},
      "system.userstatusupdate"),
  Writing("PATCH", SystemUser \o <<"role">>, {"role_code"},
      "system.userroleupdate"),
  Writing("POST", SystemUser \o <<"password">>, {"password"},
      "system.userpasswordreset"),
  Writing("PATCH", SystemUser \o <<"projects", "projectKey", "role">>,
      {"member_role"}, "system.userprojectroleupdate"),
  Writing("DELETE", SystemUser \o <<"projects", "projectKey">>, {},
      "system.userprojectremove"),
  Writing("POST", SystemUser \o <<"projects">>, {"member_role", "project_keys"},
      "system.userprojectsassign"),
  Writing("DELETE", SystemUser \o <<"projects">>, {"project_keys"},
      "system.userprojectsremove")>>

\* The writes of accounts, projects, cycles and resources.
ProjectRoutes == <<
  Writing("PATCH", <<"me", "profile">>, {"display_name", "email", "mobile"},
      "identity.profileupdate"),
  Writing("PATCH", <<"me", "password">>, {"current_password", "new_password",
      "new_password_confirm"}, "identity.passwordupdate"),
  Writing("POST", <<"me", "tokens">>, {"expires_at", "name", "project_scope",
      "scopes"}, "identity.tokencreate"),
  Writing("POST", <<"projects">>, {"description", "due_date", "name", "start_date",
      "status"}, "project.create"),
  Writing("PATCH", Project \o <<"members", "username">>, {"member_role"},
      "project.memberroleupdate"),
  Writing("DELETE", Project \o <<"members", "username">>, {},
      "project.memberremove"),
  Writing("POST", Project \o <<"members", "batch">>, {"member_role", "usernames"},
      "project.memberbatchadd"),
  Writing("POST", Project \o <<"members">>, {"member_role", "username"},
      "project.memberadd"),
  Writing("PATCH", Project, {"description", "due_date", "name", "owner_username",
      "start_date", "status"}, "project.update"),
  Writing("POST", Project \o <<"cycles", "cycleId", "close">>, {},
      "project.cycleclose"),
  Writing("PATCH", Project \o <<"cycles", "cycleId">>, CycleBody,
      "project.cycleupdate"),
  Writing("POST", Project \o <<"cycles">>, CycleBody, "project.cyclecreate"),
  Writing("DELETE", Project \o <<"attachments", "attachmentId">>, {},
      "project.attachmentarchive"),
  Writing("POST", Resource \o <<"unlock">>, {"access_password"},
      "project.resourceunlock"),
  Writing("POST", Resource \o <<"password", "reset">>, {"access_password",
      "access_password_action"}, "project.resourcepasswordreset"),
  Writing("DELETE", Resource \o <<"attachments", "attachmentId">>, {},
      "project.resourceattachmentdelete"),
  Writing("PATCH", Resource, {"access_password", "access_password_action", "body",
      "body_format", "category", "related_cycle_id", "related_work_item_key",
      "tags", "title"}, "project.resourceupdate"),
  Writing("DELETE", Resource, {}, "project.resourcearchive"),
  Writing("POST", Project \o <<"resources">>, {"access_password", "body",
      "body_format", "category", "related_cycle_id", "related_work_item_key",
      "tags", "title"}, "project.resourcecreate"),
  Writing("PATCH", <<"me", "tokens", "tokenId">>, {"name", "project_scope",
      "scopes"}, "identity.tokenupdate"),
  Writing("DELETE", <<"me", "tokens", "tokenId">>, {}, "identity.tokendelete"),
  Writing("DELETE", <<"me", "device-sessions", "familyId">>, {},
      "identity.devicesessionrevoke")>>

\* The writes of notifications, work items and their comments.
WorkItemRoutes == <<
  Writing("PATCH", <<"current-project">>, {"project_key"}, "project.select"),
  Writing("POST", <<"notifications", "read-all">>, {}, "notification.readall"),
  Writing("POST", <<"notifications", "notificationId", "read">>, {},
      "notification.read"),
  Writing("POST", <<"work-items">>, {"assignee_username", "cycle_id",
      "description", "due_date", "item_type", "parent_item_key", "priority",
      "project_key", "title"}, "workitem.create"),
  Writing("POST", <<"work-items", "batch">>, {"action", "assignee_username",
      "cycle_id", "item_keys", "item_type", "priority", "project_key", "status"},
      "workitem.batchupdate"),
  Writing("POST", <<"work-item-saved-views">>, {"assignee_username", "cycle_id",
      "is_default", "item_type", "name", "per_page", "priority", "project_key",
      "q", "sort", "status"}, "workitem.savedviewcreate"),
  Writing("POST", <<"work-item-saved-views", "savedViewId", "default">>, {},
      "workitem.savedviewdefault"),
  Writing("PATCH", <<"work-item-saved-views", "savedViewId">>, {"name"},
      "workitem.savedviewrename"),
  Writing("DELETE", <<"work-item-saved-views", "savedViewId">>, {},
      "workitem.savedviewdelete"),
  Writing("POST", Item \o <<"handoff">>, {"assignee_username", "body",
      "source_comment_id", "status"}, "workitem.handoff"),
  Writing("POST", Item \o <<"restore">>, {}, "workitem.restore"),
  Writing("PATCH", Item \o <<"primary-post">>, CommentBody,
      "workitem.primarypostupdate"),
  Writing("POST", Item \o <<"resource-library-link">>, {},
      "workitem.resourcelibrarylink"),
  Writing("DELETE", Item \o <<"resource-library-link">>, {},
      "workitem.resourcelibraryunlink"),
  Writing("POST", Comments, CommentBody, "workitem.commentcreate"),
  Writing("POST", Comments \o <<"draft">>, CommentBody,
      "workitem.commentdraftcreate"),
  Writing("POST", Comments \o <<"commentId", "publish">>, CommentBody,
      "workitem.commentdraftpublish"),
  Writing("DELETE", Comments \o <<"commentId", "draft">>, {},
      "workitem.commentdraftcancel"),
  [Writing("DELETE", CommentFiles \o <<"attachmentId">>, {},
      "workitem.primarypostattachmentdelete") EXCEPT !.context = "work-item-primary-post"],
  [Writing("DELETE", CommentFiles \o <<"attachmentId">>, {},
      "workitem.commentattachmentdelete") EXCEPT !.context = "work-item-comment-edit"],
  Writing("PATCH", Comments \o <<"commentId">>, CommentBody,
      "workitem.commentupdate"),
  Writing("PATCH", Item, {"assignee_username", "description", "due_date",
      "parent_item_key", "priority", "status", "title"}, "workitem.update")>>

ReadTable == StaticRoutes \o ProjectReadRoutes \o ReadRoutes
WriteTable == SystemRoutes \o ProjectRoutes \o WorkItemRoutes
=============================================================================
