----------------------------- MODULE ApiClient -----------------------------
(***************************************************************************)
(* The calls of the front end's API client (frontend/packages/api-client): *)
(* for every method of the client, the request it hands to its transport.  *)
(* A path is the sequence of its segments after /api/v1; a segment whose   *)
(* name is in Numeric or Textual stands for the value of that argument.    *)
(* A request carries a set of fields, the query of a read and the JSON     *)
(* body of a write, named as on the wire: must are the ones the method     *)
(* always sends, may the ones it sends when the caller gives a value.      *)
(***************************************************************************)
EXTENDS TLC, Sequences

\* Arguments that are numbers, and arguments that are keys, codes or names.
Numeric == {"attachmentId", "commentId", "cycleId", "resourceId", "tokenId",
            "notificationId", "savedViewId", "releaseId", "assetId",
            "version", "recordId", "allocationId"}
Textual == {"projectKey", "itemKey", "username", "roleCode", "familyId"}

Get(path, may) == [method |-> "GET", path |-> path, must |-> {}, may |-> may,
                   context |-> "none"]
Send(method, path, must) == [method |-> method, path |-> path, must |-> must,
                             may |-> {}, context |-> "none"]
Update(path, must, may) == [Send("PATCH", path, must) EXCEPT !.may = may]

\* The client's own calls, and the ones of its single-purpose parts.
SessionCalls == [
  getCurrentUser       |-> Get(<<"auth", "me">>, {}),
  getProjects          |-> Get(<<"projects">>, {"status", "q", "page", "per_page"}),
  createProject        |-> Send("POST", <<"projects">>,
                             {"name", "description", "status", "start_date", "due_date"}),
  updateCurrentProject |-> Send("PATCH", <<"current-project">>, {"project_key"}),
  logout               |-> Send("POST", <<"auth", "logout">>, {})]

AccountCalls == [
  updateOwnPassword   |-> Send("PATCH", <<"me", "password">>,
                            {"current_password", "new_password", "new_password_confirm"}),
  getApiTokens        |-> Get(<<"me", "tokens">>, {}),
  createApiToken      |-> Send("POST", <<"me", "tokens">>,
                            {"name", "scopes", "project_scope", "expires_at"}),
  updateApiToken      |-> Send("PATCH", <<"me", "tokens", "tokenId">>,
                            {"name", "scopes", "project_scope"}),
  deleteApiToken      |-> Send("DELETE", <<"me", "tokens", "tokenId">>, {}),
  getDeviceSessions   |-> Get(<<"me", "device-sessions">>, {}),
  revokeDeviceSession |-> Send("DELETE", <<"me", "device-sessions", "familyId">>, {})]

ProfileCalls == [
  getOwnProfile    |-> Get(<<"me", "profile">>, {}),
  updateOwnProfile |-> Send("PATCH", <<"me", "profile">>,
                         {"display_name", "email", "mobile"})]

SearchCalls == [search |-> Get(<<"search">>, {"q", "page", "per_page"})]

TopbarCalls == [getTopbarStatus |-> Get(<<"topbar", "status">>, {})]

DashboardCalls == [getDashboard |-> Get(<<"dashboard">>, {})]

NotificationCalls == [
  getNotifications         |-> Get(<<"notifications">>,
                                {"limit", "filter", "page", "per_page"}),
  getNotificationTarget    |-> Get(<<"notifications", "notificationId", "target">>, {}),
  markNotificationRead     |-> Send("POST", <<"notifications", "notificationId", "read">>, {}),
  markAllNotificationsRead |-> Send("POST", <<"notifications", "read-all">>, {})]

TimeCalls == [
  getTimeManagementOverview   |-> Get(<<"time-management", "overview">>,
                                   {"project_key", "username", "start", "end"}),
  getTimeManagementChanges    |-> Get(<<"time-management", "changes">>,
                                   {"page", "per_page", "project_key", "actor"}),
  getTimeManagementMembers    |-> Get(<<"time-management", "members">>, {}),
  restoreTimeManagementChange |-> Send("POST",
                                   <<"time-management", "changes", "recordId", "restore">>, {}),
  getProjectTimeAllocations   |-> Get(<<"projects", "projectKey", "time-allocations">>, {}),
  createProjectTimeAllocation |-> Send("POST", <<"projects", "projectKey", "time-allocations">>,
                                   {"username", "start_date", "end_date", "daily_hours",
                                    "phase_task_name", "note"}),
  updateProjectTimeAllocation |-> Send("PATCH",
                                   <<"projects", "projectKey", "time-allocations", "allocationId">>,
                                   {"username", "start_date", "end_date", "daily_hours",
                                    "phase_task_name", "note"}),
  deleteProjectTimeAllocation |-> Send("DELETE",
                                   <<"projects", "projectKey", "time-allocations", "allocationId">>, {})]

\* A new attachment, described before it is uploaded (attachmentCreateRequestBody).
Attach(path) == [Send("POST", path, {"original_filename", "content_type", "byte_size"})
                   EXCEPT !.may = {"checksum_sha256"}]

ProjectCalls == [
  getProject                      |-> Get(<<"projects", "projectKey">>, {}),
  getProjectMembers               |-> Get(<<"projects", "projectKey", "members">>, {}),
  getProjectMemberCandidates      |-> Get(<<"projects", "projectKey", "members", "candidates">>, {}),
  getProjectCycles                |-> Get(<<"projects", "projectKey", "cycles">>, {}),
  getProjectCycle                 |-> Get(<<"projects", "projectKey", "cycles", "cycleId">>, {}),
  getProjectPersonalAnalysis      |-> Get(<<"projects", "projectKey", "my-analysis">>, {}),
  getProjectAttachments           |-> Get(<<"projects", "projectKey", "attachments">>, {}),
  getProjectAttachmentPreview     |-> Get(<<"projects", "projectKey", "attachments", "attachmentId", "preview">>, {}),
  createProjectAttachment         |-> Attach(<<"projects", "projectKey", "attachments">>),
  getProjectAttachmentUploadUrl   |-> Get(<<"projects", "projectKey", "attachments", "attachmentId", "upload-url">>,
                                       {"expires_in_seconds"}),
  markProjectAttachmentUploaded   |-> Send("POST", <<"projects", "projectKey", "attachments", "attachmentId", "uploaded">>, {}),
  getProjectAttachmentDownloadUrl |-> Get(<<"projects", "projectKey", "attachments", "attachmentId", "download-url">>,
                                       {"expires_in_seconds"}),
  archiveProjectAttachment        |-> Send("DELETE", <<"projects", "projectKey", "attachments", "attachmentId">>, {}),
  createProjectCycle              |-> Send("POST", <<"projects", "projectKey", "cycles">>,
                                       {"name", "goal", "description", "owner_username", "start_date", "end_date"}),
  updateProjectCycle              |-> Send("PATCH", <<"projects", "projectKey", "cycles", "cycleId">>,
                                       {"name", "goal", "description", "owner_username", "start_date", "end_date"}),
  closeProjectCycle               |-> Send("POST", <<"projects", "projectKey", "cycles", "cycleId", "close">>, {}),
  updateProject                   |-> Update(<<"projects", "projectKey">>, {},
                                       {"name", "description", "status", "owner_username", "start_date", "due_date"}),
  addProjectMember                |-> Send("POST", <<"projects", "projectKey", "members">>, {"username", "member_role"}),
  addProjectMembers               |-> Send("POST", <<"projects", "projectKey", "members", "batch">>, {"usernames", "member_role"}),
  updateProjectMemberRole         |-> Send("PATCH", <<"projects", "projectKey", "members", "username">>, {"member_role"}),
  removeProjectMember             |-> Send("DELETE", <<"projects", "projectKey", "members", "username">>, {})]

Resource == <<"projects", "projectKey", "resources", "resourceId">>

ResourceCalls == [
  getProjectResources     |-> Get(<<"projects", "projectKey", "resources">>,
                               {"q", "category", "status", "tag", "related_work_item_key", "related_cycle_id"}),
  getProjectResourceLinkedWorkItemPosts
                          |-> Get(<<"projects", "projectKey", "resource-library", "linked-work-item-posts">>, {"q"}),
  getProjectResource      |-> Get(Resource, {}),
  unlockProjectResource   |-> Send("POST", Resource \o <<"unlock">>, {"access_password"}),
  createProjectResource   |-> Send("POST", <<"projects", "projectKey", "resources">>,
                               {"title", "category", "body", "body_format", "access_password", "tags",
                                "related_work_item_key", "related_cycle_id"}),
  updateProjectResource   |-> Send("PATCH", Resource,
                               {"title", "category", "body", "body_format", "access_password_action",
                                "access_password", "tags", "related_work_item_key", "related_cycle_id"}),
  archiveProjectResource  |-> Send("DELETE", Resource, {}),
  resetProjectResourcePassword
                          |-> Send("POST", Resource \o <<"password", "reset">>,
                               {"access_password_action", "access_password"}),
  getProjectResourceAttachments
                          |-> Get(Resource \o <<"attachments">>, {"access"}),
  createProjectResourceAttachment
                          |-> Attach(Resource \o <<"attachments">>),
  getProjectResourceAttachmentUploadUrl
                          |-> Get(Resource \o <<"attachments", "attachmentId", "upload-url">>, {}),
  markProjectResourceAttachmentUploaded
                          |-> [Send("POST", Resource \o <<"attachments", "attachmentId", "uploaded">>, {})
                                 EXCEPT !.may = {"encrypted_sha256"}],
  getProjectResourceAttachmentDownloadUrl
                          |-> Get(Resource \o <<"attachments", "attachmentId", "download-url">>, {"access"}),
  getProjectResourceAttachmentPreview
                          |-> Get(Resource \o <<"attachments", "attachmentId", "preview">>, {"access"}),
  deleteProjectResourceAttachment
                          |-> Send("DELETE", Resource \o <<"attachments", "attachmentId">>, {})]

SystemViewCalls == [
  getSystemDashboard     |-> Get(<<"system", "dashboard">>, {}),
  getSystemPermissions   |-> Get(<<"system", "permissions">>, {}),
  getSystemDatabaseStats |-> Get(<<"system", "database-stats">>, {}),
  getSystemAuditLogs     |-> Get(<<"system", "audit">>,
                              {"actor", "action", "target_type", "target_id", "page", "per_page"}),
  getSystemApiDocs       |-> Get(<<"system", "api-docs-view">>, {}),
  getSystemUsersView     |-> Get(<<"system", "users-view">>, {"page", "per_page"}),
  getSystemRolesView     |-> Get(<<"system", "roles-view">>, {"role", "page", "per_page"}),
  getSystemStorageView   |-> Get(<<"system", "storage-view">>, {"page", "per_page"}),
  getSystemOpenApiView   |-> Get(<<"system", "openapi-view">>, {}),
  getSystemReleasesView  |-> Get(<<"system", "releases-view">>, {"page", "per_page"})]

SystemCalls == [
  createSystemApiToken |-> Send("POST", <<"system", "api-tokens">>, {"name", "scopes"}),
  updateSystemApiToken |-> Send("PATCH", <<"system", "api-tokens", "tokenId">>, {"name", "scopes"}),
  deleteSystemApiToken |-> Send("DELETE", <<"system", "api-tokens", "tokenId">>, {}),
  updateSystemReleaseSettings |-> Send("PATCH", <<"system", "releases", "settings">>, {"retention_count"}),
  createSystemRelease  |-> Send("POST", <<"system", "releases">>,
                            {"version_name", "title", "notes", "channel", "manifest_sha256",
                             "signing_key_id", "source_commit", "source_tag"}),
  updateSystemRelease  |-> Send("PATCH", <<"system", "releases", "releaseId">>,
                            {"version_name", "title", "notes", "publish"}),
  verifySystemRelease  |-> Send("POST", <<"system", "releases", "releaseId", "verify">>, {}),
  withdrawSystemRelease |-> Send("POST", <<"system", "releases", "releaseId", "withdraw">>,
                            {"reason", "github_withdrawal_status"}),
  createSystemReleaseAsset |-> Send("POST", <<"system", "releases", "releaseId", "assets">>,
                            {"platform", "architecture", "artifact_kind", "original_filename",
                             "content_type", "byte_size", "checksum_sha256"}),
  getSystemReleaseAssetUploadUrl |-> Get(<<"system", "releases", "releaseId", "assets", "assetId", "upload-url">>,
                            {"expires_in_seconds"}),
  markSystemReleaseAssetUploaded |-> Send("POST",
                            <<"system", "releases", "releaseId", "assets", "assetId", "uploaded">>, {}),
  getSystemReleaseAssetDownloadUrl |-> Get(<<"system", "releases", "releaseId", "assets", "assetId", "download-url">>,
                            {"expires_in_seconds"}),
  deleteSystemReleaseAsset |-> Send("DELETE", <<"system", "releases", "releaseId", "assets", "assetId">>, {}),
  saveStorageConfig    |-> Send("POST", <<"storage", "config">>,
                            {"endpoint", "region", "bucket", "access_key_id", "access_key_secret", "activate"}),
  probeStorageConfig   |-> Send("POST", <<"storage", "config", "probe">>, {}),
  initializeStorageConfig |-> Send("POST", <<"storage", "config", "initialize">>, {}),
  rollbackStorageConfig |-> Send("POST", <<"storage", "config", "versions", "version", "rollback">>, {}),
  createSystemRole     |-> Send("POST", <<"system", "roles">>, {"role_code", "role_name", "data_scope_type"}),
  updateSystemRoleStatus |-> Send("PATCH", <<"system", "roles", "roleCode", "status">>, {"status"}),
  updateSystemRolePermissions |-> Send("PATCH", <<"system", "roles", "roleCode", "permissions">>, {"permission_keys"}),
  createSystemUser     |-> Send("POST", <<"system", "users">>,
                            {"username", "display_name", "email", "mobile", "password", "role_code"}),
  updateSystemUserStatus |-> Send("PATCH", <<"system", "users", "username", "status">>, {"status"}),
  updateSystemUserRole |-> Send("PATCH", <<"system", "users", "username", "role">>, {"role_code"}),
  resetSystemUserPassword |-> Send("POST", <<"system", "users", "username", "password">>, {"password"}),
  assignSystemUserProjects |-> Send("POST", <<"system", "users", "username", "projects">>,
                            {"project_keys", "member_role"}),
  removeSystemUserProjects |-> Send("DELETE", <<"system", "users", "username", "projects">>, {"project_keys"}),
  removeSystemUserProject |-> Send("DELETE", <<"system", "users", "username", "projects", "projectKey">>, {}),
  updateSystemUserProjectRole |-> Send("PATCH",
                            <<"system", "users", "username", "projects", "projectKey", "role">>, {"member_role"})]

\* The filters of a list of work items.
ListFields == {"item_type", "q", "status", "priority", "assignee_username", "project_key",
               "cycle_id", "sort", "page", "per_page"}

WorkItemCalls == [
  getWorkItems             |-> Get(<<"work-items">>, ListFields),
  getWorkItemListView      |-> Get(<<"work-item-list-view">>, ListFields),
  createWorkItem           |-> Send("POST", <<"work-items">>,
                                {"project_key", "item_type", "title", "description", "priority",
                                 "assignee_username", "cycle_id", "due_date", "parent_item_key"}),
  batchUpdateWorkItems     |-> Send("POST", <<"work-items", "batch">>,
                                {"project_key", "item_type", "item_keys", "action", "status",
                                 "assignee_username", "priority", "cycle_id"}),
  createWorkItemSavedView  |-> Send("POST", <<"work-item-saved-views">>,
                                {"project_key", "item_type", "name", "q", "status", "priority",
                                 "assignee_username", "cycle_id", "sort", "per_page", "is_default"}),
  renameWorkItemSavedView  |-> Send("PATCH", <<"work-item-saved-views", "savedViewId">>, {"name"}),
  setDefaultWorkItemSavedView |-> Send("POST", <<"work-item-saved-views", "savedViewId", "default">>, {}),
  deleteWorkItemSavedView  |-> Send("DELETE", <<"work-item-saved-views", "savedViewId">>, {}),
  getWorkItem              |-> Get(<<"work-items", "itemKey">>, {}),
  getWorkItemDetailView    |-> Get(<<"work-item-detail-view", "itemKey">>, {}),
  getWorkItemResourceLibraryLink |-> Get(<<"work-items", "itemKey", "resource-library-link">>, {}),
  updateWorkItemTyping     |-> Send("POST", <<"work-items", "itemKey", "typing">>, {"client_id", "active"}),
  updateWorkItem           |-> Update(<<"work-items", "itemKey">>, {},
                                {"title", "description", "status", "priority", "assignee_username",
                                 "due_date", "parent_item_key", "cycle_id"}),
  updateWorkItemPrimaryPost |-> Send("PATCH", <<"work-items", "itemKey", "primary-post">>,
                                {"body", "body_format"}),
  linkWorkItemToResourceLibrary |-> Send("POST", <<"work-items", "itemKey", "resource-library-link">>, {}),
  unlinkWorkItemFromResourceLibrary |-> Send("DELETE", <<"work-items", "itemKey", "resource-library-link">>, {}),
  restoreWorkItem          |-> Send("POST", <<"work-items", "itemKey", "restore">>, {}),
  closeWorkItem            |-> Send("POST", <<"work-items", "itemKey", "close">>, {}),
  handoffWorkItem          |-> [Send("POST", <<"work-items", "itemKey", "handoff">>,
                                  {"status", "assignee_username", "body"})
                                  EXCEPT !.may = {"source_comment_id"}]]

\* A comment's text; the comment it answers is sent when there is one
\* (commentRequestBody).
Comment(method, path) == [Send(method, path, {"body", "body_format"})
                            EXCEPT !.may = {"parent_comment_id"}]
Comments == <<"work-items", "itemKey", "comments">>

DiscussionCalls == [
  getWorkItemComments         |-> Get(Comments, {}),
  createWorkItemComment       |-> Comment("POST", Comments),
  createWorkItemCommentDraft  |-> Comment("POST", Comments \o <<"draft">>),
  updateWorkItemComment       |-> Comment("PATCH", Comments \o <<"commentId">>),
  publishWorkItemCommentDraft |-> Comment("POST", Comments \o <<"commentId", "publish">>),
  cancelWorkItemCommentDraft  |-> Send("DELETE", Comments \o <<"commentId", "draft">>, {})]

ItemFiles == <<"work-items", "itemKey", "attachments">>
CommentFiles == Comments \o <<"commentId", "attachments">>

AttachmentCalls == [
  getWorkItemAttachments       |-> Get(ItemFiles, {}),
  getWorkItemAttachmentPreview |-> Get(ItemFiles \o <<"attachmentId", "preview">>, {}),
  createWorkItemAttachment     |-> Attach(ItemFiles),
  getWorkItemAttachmentUploadUrl |-> Get(ItemFiles \o <<"attachmentId", "upload-url">>, {"expires_in_seconds"}),
  markWorkItemAttachmentUploaded |-> Send("POST", ItemFiles \o <<"attachmentId", "uploaded">>, {}),
  getWorkItemAttachmentDownloadUrl |-> Get(ItemFiles \o <<"attachmentId", "download-url">>, {"expires_in_seconds"}),
  getWorkItemCommentAttachments |-> Get(CommentFiles, {}),
  getWorkItemCommentAttachmentPreview |-> Get(CommentFiles \o <<"attachmentId", "preview">>, {}),
  deleteWorkItemCommentAttachment |-> [Send("DELETE", CommentFiles \o <<"attachmentId">>, {})
                                         EXCEPT !.context = "work-item-comment-edit"],
  deleteWorkItemPrimaryPostAttachment |-> [Send("DELETE", CommentFiles \o <<"attachmentId">>, {})
                                         EXCEPT !.context = "work-item-primary-post"],
  createWorkItemCommentAttachment |-> Attach(CommentFiles),
  getWorkItemCommentAttachmentUploadUrl |-> Get(CommentFiles \o <<"attachmentId", "upload-url">>, {"expires_in_seconds"}),
  markWorkItemCommentAttachmentUploaded |-> Send("POST", CommentFiles \o <<"attachmentId", "uploaded">>, {}),
  getWorkItemCommentAttachmentDownloadUrl |-> Get(CommentFiles \o <<"attachmentId", "download-url">>, {"expires_in_seconds"})]

\* All of them: the object createApiClient returns.
Calls == SessionCalls @@ AccountCalls @@ ProfileCalls @@ SearchCalls @@ TopbarCalls
         @@ DashboardCalls @@ NotificationCalls @@ TimeCalls @@ ProjectCalls @@ ResourceCalls
         @@ SystemViewCalls @@ SystemCalls @@ WorkItemCalls @@ DiscussionCalls @@ AttachmentCalls
=============================================================================
