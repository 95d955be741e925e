------------------------ MODULE DesktopOperations ------------------------
(***************************************************************************)
(* The operations the desktop's main process carries out for its renderer  *)
(* (network/operation-registry.mjs).  An operation knows the request it    *)
(* sends; it takes the arguments of its path, the fields it needs and the  *)
(* ones it takes, and refuses any other input.                             *)
(***************************************************************************)
EXTENDS DesktopRoutes

\* adds: what the operation sends for fields its input leaves out.  some: one
\* of its optional fields at least must be given.
Read(name, path, takes) == [name |-> name, method |-> "GET", path |-> path,
                            needs |-> {}, takes |-> takes, some |-> FALSE,
                            adds |-> << >>, context |-> "none", idempotent |-> TRUE]
\* A mistake SentAsAsked refuses: descriptor's default makes a write idempotent.
WriteByDefault(name, method, path, needs) ==
  [Read(name, path, {}) EXCEPT !.method = method, !.needs = needs]
Write(name, method, path, needs) == [Read(name, path, {}) EXCEPT !.method = method,
                                     !.needs = needs, !.idempotent = FALSE]

\* The operations without input (noInputOperation).
BareOperations == {
  Read("session.probe", <<"device-session">>, {}),
  Write("file.canaryupload", "POST", <<"device-file-transfer", "canary",
      "upload-request">>, {}),
  Read("file.canarydownload", <<"device-file-transfer", "canary",
      "download-request">>, {}),
  Read("identity.current", <<"auth", "me">>, {}),
  Read("identity.profile", <<"me", "profile">>, {}),
  Read("identity.tokens", <<"me", "tokens">>, {}),
  Read("identity.devicesessions", <<"me", "device-sessions">>, {}),
  Read("shell.topbar", <<"topbar", "status">>, {}),
  Read("system.dashboard", <<"system", "dashboard">>, {}),
  Read("system.permissions", <<"system", "permissions">>, {}),
  Read("system.databasestats", <<"system", "database-stats">>, {}),
  Read("system.apidocs", <<"system", "api-docs-view">>, {}),
  Read("system.openapiview", <<"system", "openapi-view">>, {}),
  Write("system.storageprobe", "POST", <<"storage", "config", "probe">>, {}),
  Write("system.storageinitialize", "POST", <<"storage", "config", "initialize">>,
      {}),
  Read("project.current", <<"current-project">>, {}),
  Write("notification.readall", "POST", <<"notifications", "read-all">>, {})}

\* Projects, members, cycles and project files.
ProjectOperations == {
  Read("project.list", <<"projects">>, {"page", "perPage", "status"}),
  Write("project.create", "POST", <<"projects">>, {"description", "dueDate",
      "name", "startDate", "status"}),
  Read("project.detail", Project, {}),
  [Write("project.update", "PATCH", Project, {}) EXCEPT !.takes = {"description",
      "dueDate", "name", "ownerUsername", "startDate", "status"}, !.some = TRUE],
  Read("project.members", Project \o <<"members">>, {}),
  Read("project.membercandidates", Project \o <<"members", "candidates">>, {}),
  Write("project.memberadd", "POST", Project \o <<"members">>, {"memberRole",
      "username"}),
  Write("project.memberbatchadd", "POST", Project \o <<"members", "batch">>,
      {"memberRole", "usernames"}),
  Write("project.memberroleupdate", "PATCH", Project \o <<"members", "username">>,
      {"memberRole"}),
  Write("project.memberremove", "DELETE", Project \o <<"members", "username">>, {}),
  Read("project.cycles", Project \o <<"cycles">>, {}),
  Read("project.cycledetail", Project \o <<"cycles", "cycleId">>, {}),
  Write("project.cyclecreate", "POST", Project \o <<"cycles">>, {"description",
      "endDate", "goal", "name", "ownerUsername", "startDate"}),
  Write("project.cycleupdate", "PATCH", Project \o <<"cycles", "cycleId">>,
      {"description", "endDate", "goal", "name", "ownerUsername", "startDate"}),
  Write("project.cycleclose", "POST", Project \o <<"cycles", "cycleId", "close">>,
      {}),
  Read("project.personalanalysis", Project \o <<"my-analysis">>, {}),
  Read("project.attachments", Project \o <<"attachments">>, {}),
  Read("project.attachmentpreview", Project \o <<"attachments", "attachmentId",
      "preview">>, {}),
  Write("project.attachmentarchive", "DELETE", Project \o <<"attachments",
      "attachmentId">>, {})}

\* Project resources.
ResourceOperations == {
  Read("project.resources", Project \o <<"resources">>, {"category", "q",
      "relatedCycleId", "relatedWorkItemKey", "status", "tag"}),
  Read("project.resourcelinkedworkitemposts", Project \o <<"resource-library",
      "linked-work-item-posts">>, {"q"}),
  Read("project.resourcedetail", Resource, {}),
  Write("project.resourceunlock", "POST", Resource \o <<"unlock">>,
      {"accessPassword"}),
  Write("project.resourcecreate", "POST", Project \o <<"resources">>,
      {"accessPassword", "body", "bodyFormat", "category", "relatedCycleId",
      "relatedWorkItemKey", "tags", "title"}),
  Write("project.resourceupdate", "PATCH", Resource, {"accessPassword",
      "accessPasswordAction", "body", "bodyFormat", "category", "relatedCycleId",
      "relatedWorkItemKey", "tags", "title"}),
  Write("project.resourcearchive", "DELETE", Resource, {}),
  Write("project.resourcepasswordreset", "POST", Resource \o <<"password",
      "reset">>, {"accessPassword", "accessPasswordAction"}),
  Read("project.resourceattachments", Resource \o <<"attachments">>,
      {"accessToken"}),
  Read("project.resourceattachmentpreview", Resource \o <<"attachments",
      "attachmentId", "preview">>, {"accessToken"}),
  Write("project.resourceattachmentdelete", "DELETE", Resource \o <<"attachments",
      "attachmentId">>, {})}

\* Search, the profile, tokens and device sessions.
IdentityOperations == {
  Read("search.list", <<"search">>, {"page", "perPage", "q"}),
  Write("identity.profileupdate", "PATCH", <<"me", "profile">>, {"displayName",
      "email", "mobile"}),
  Write("identity.passwordupdate", "PATCH", <<"me", "password">>,
      {"currentPassword", "newPassword", "newPasswordConfirm"}),
  Write("identity.tokencreate", "POST", <<"me", "tokens">>, {"expiresAt", "name",
      "projectScope", "scopes"}),
  Write("identity.tokenupdate", "PATCH", <<"me", "tokens", "tokenId">>, {"name",
      "projectScope", "scopes"}),
  Write("identity.tokendelete", "DELETE", <<"me", "tokens", "tokenId">>, {}),
  Write("identity.devicesessionrevoke", "DELETE", <<"me", "device-sessions",
      "familyId">>, {})}

\* Notifications and the administration views.
SystemViewOperations == {
  [Read("notification.list", <<"notifications">>, {"filter", "limit", "page",
      "perPage"}) EXCEPT !.adds = [filter |-> "all"]],
  Read("system.usersview", <<"system", "users-view">>, {"page", "perPage"}),
  Read("system.rolesview", <<"system", "roles-view">>, {"page", "perPage", "role"}),
  Read("system.storageview", <<"system", "storage-view">>, {"page", "perPage"}),
  Read("system.releasesview", <<"system", "releases-view">>, {"page", "perPage"}),
  Read("system.audit", <<"system", "audit">>, {"action", "actor", "page",
      "perPage", "targetId", "targetType"})}

\* The writes of the administration pages.
SystemOperations == {
  Write("system.apitokencreate", "POST", <<"system", "api-tokens">>, {"name",
      "scopes"}),
  Write("system.apitokenupdate", "PATCH", <<"system", "api-tokens", "tokenId">>,
      {"name", "scopes"}),
  Write("system.apitokendelete", "DELETE", <<"system", "api-tokens", "tokenId">>,
      {}),
  Write("system.releasesettingsupdate", "PATCH", <<"system", "releases",
      "settings">>, {"retentionCount"}),
  Write("system.releasecreate", "POST", <<"system", "releases">>, {"channel",
      "manifestSha256", "notes", "signingKeyId", "sourceCommit", "sourceTag",
      "title", "versionName"}),
  Write("system.releaseupdate", "PATCH", Release, {"notes", "publish", "title",
      "versionName"}),
  Write("system.releaseverify", "POST", Release \o <<"verify">>, {}),
  [Write("system.releasewithdraw", "POST", Release \o <<"withdraw">>,
      {"reason"}) EXCEPT !.adds = [github_withdrawal_status |-> "pending"]],
  Write("system.releaseassetdelete", "DELETE", Release \o <<"assets", "assetId">>,
      {}),
  Write("system.storagesave", "POST", <<"storage", "config">>, {"accessKeyId",
      "accessKeySecret", "activate", "bucket", "endpoint", "region"}),
  Write("system.storagerollback", "POST", <<"storage", "config", "versions",
      "version", "rollback">>, {}),
  Write("system.rolecreate", "POST", <<"system", "roles">>, {"dataScopeType",
      "roleCode", "roleName"}),
  Write("system.rolestatusupdate", "PATCH", <<"system", "roles", "roleCode",
      "status">>, {"status"}),
  Write("system.rolepermissionsupdate", "PATCH", <<"system", "roles", "roleCode",
      "permissions">>, {"permissionKeys"}),
  Write("system.usercreate", "POST", <<"system", "users">>, {"displayName",
      "email", "mobile", "password", "roleCode", "username"}),
  Write("system.userstatusupdate", "PATCH", SystemUser \o <<"status">>, {"status"}),
  Write("system.userroleupdate", "PATCH", SystemUser \o <<"role">>, {"roleCode"}),
  Write("system.userpasswordreset", "POST", SystemUser \o <<"password">>,
      {"password"}),
  Write("system.userprojectsassign", "POST", SystemUser \o <<"projects">>,
      {"memberRole", "projectKeys"}),
  Write("system.userprojectsremove", "DELETE", SystemUser \o <<"projects">>,
      {"projectKeys"}),
  Write("system.userprojectremove", "DELETE", SystemUser \o <<"projects",
      "projectKey">>, {}),
  Write("system.userprojectroleupdate", "PATCH", SystemUser \o <<"projects",
      "projectKey", "role">>, {"memberRole"})}

\* Notifications read, project choice, work items and saved views.
WorkItemOperations == {
  Read("notification.target", <<"notifications", "notificationId", "target">>, {}),
  Write("project.select", "PATCH", <<"current-project">>, {"projectKey"}),
  Write("notification.read", "POST", <<"notifications", "notificationId", "read">>,
      {}),
  Read("workitem.list", <<"work-items">>, {"assigneeUsername", "clearDefault",
      "cycleId", "itemType", "page", "perPage", "priority", "projectKey", "q",
      "sort", "status"}),
  Read("workitem.listview", <<"work-item-list-view">>, {"assigneeUsername",
      "clearDefault", "cycleId", "itemType", "page", "perPage", "priority",
      "projectKey", "q", "sort", "status"}),
  Write("workitem.create", "POST", <<"work-items">>, {"assigneeUsername",
      "cycleId", "description", "dueDate", "itemType", "parentItemKey", "priority",
      "projectKey", "title"}),
  [Write("workitem.batchupdate", "POST", <<"work-items", "batch">>, {"projectKey",
      "itemType", "itemKeys", "action"}) EXCEPT !.takes = {"status",
      "assigneeUsername", "priority", "cycleId"}, !.adds = [status |-> "",
      assignee_username |-> "", priority |-> "", cycle_id |-> "null"]],
  [Write("workitem.savedviewcreate", "POST", <<"work-item-saved-views">>,
      {"projectKey", "itemType", "name", "perPage",
      "isDefault"}) EXCEPT !.takes = {"assigneeUsername", "cycleId", "priority",
      "q", "sort", "status"}, !.adds = [q |-> "", status |-> "", priority |-> "",
      assignee_username |-> "", cycle_id |-> "", sort |-> ""]],
  Write("workitem.savedviewrename", "PATCH", <<"work-item-saved-views",
      "savedViewId">>, {"name"}),
  Write("workitem.savedviewdefault", "POST", <<"work-item-saved-views",
      "savedViewId", "default">>, {}),
  Write("workitem.savedviewdelete", "DELETE", <<"work-item-saved-views",
      "savedViewId">>, {}),
  Read("workitem.detail", Item, {}),
  Read("workitem.detailview", <<"work-item-detail-view", "itemKey">>, {}),
  Read("workitem.resourcelibrarylinkstatus", Item \o <<"resource-library-link">>,
      {}),
  [Write("workitem.update", "PATCH", Item,
      {}) EXCEPT !.takes = {"assigneeUsername", "description", "dueDate",
      "parentItemKey", "priority", "status", "title"}, !.some = TRUE]}

\* Posts, comments and attachments of a work item.
DiscussionOperations == {
  Write("workitem.restore", "POST", Item \o <<"restore">>, {}),
  Write("workitem.primarypostupdate", "PATCH", Item \o <<"primary-post">>, {"body",
      "bodyFormat"}),
  Write("workitem.resourcelibrarylink", "POST",
      Item \o <<"resource-library-link">>, {}),
  Write("workitem.resourcelibraryunlink", "DELETE",
      Item \o <<"resource-library-link">>, {}),
  [Write("workitem.handoff", "POST", Item \o <<"handoff">>, {"assigneeUsername",
      "body", "status"}) EXCEPT !.takes = {"sourceCommentId"}],
  [Write("workitem.commentcreate", "POST", Comments,
      {"body"}) EXCEPT !.takes = {"bodyFormat", "parentCommentId"},
      !.adds = [body_format |-> "plain"]],
  [Write("workitem.commentdraftcreate", "POST", Comments \o <<"draft">>, {"body",
      "bodyFormat"}) EXCEPT !.takes = {"parentCommentId"}],
  [Write("workitem.commentdraftpublish", "POST", Comments \o <<"commentId",
      "publish">>, {"body", "bodyFormat"}) EXCEPT !.takes = {"parentCommentId"}],
  Write("workitem.commentdraftcancel", "DELETE", Comments \o <<"commentId",
      "draft">>, {}),
  [Write("workitem.commentupdate", "PATCH", Comments \o <<"commentId">>,
      {"body"}) EXCEPT !.takes = {"bodyFormat", "parentCommentId"},
      !.adds = [body_format |-> "plain"]],
  Read("workitem.comments", Comments, {}),
  Read("workitem.attachments", Item \o <<"attachments">>, {}),
  Read("workitem.attachmentpreview", Item \o <<"attachments", "attachmentId",
      "preview">>, {}),
  Read("workitem.commentattachments", CommentFiles, {}),
  Read("workitem.commentattachmentpreview", CommentFiles \o <<"attachmentId",
      "preview">>, {}),
  [Write("workitem.commentattachmentdelete", "DELETE",
      CommentFiles \o <<"attachmentId">>, {})
      EXCEPT !.context = "work-item-comment-edit"],
  [Write("workitem.primarypostattachmentdelete", "DELETE",
      CommentFiles \o <<"attachmentId">>, {})
      EXCEPT !.context = "work-item-primary-post"]}

Operations == BareOperations \cup ProjectOperations \cup ResourceOperations
              \cup IdentityOperations \cup SystemViewOperations \cup SystemOperations
              \cup WorkItemOperations \cup DiscussionOperations
=============================================================================
