----------------------------- MODULE MCAppShell -----------------------------
(***************************************************************************)
(* Scenarios for TLC: handlers that share flags, counters or parts, on the *)
(* pages where they meet.                                                  *)
(***************************************************************************)
EXTENDS AppShell

ThreeRuns == <<"t1", "t2", "t3">>

Scene(pages, handlers, loads, faults, others, events) ==
    [pages |-> pages, handlers |-> handlers, tasks |-> 2, loads |-> loads,
     faults |-> faults, others |-> others, events |-> events]
OneMore(scene) == [scene EXCEPT !.tasks = 3]

\* Pages are left and come back to while two runs are under way, on the pages
\* of one kind of data after the other.  The last scenes have an event of the
\* stream and a change made by another user, and runs that lose a flag to one
\* whose own was cleared by the load of a page, with a third run beside them.
Scenes ==
    {Scene({"item"}, {"submitWorkItemHandoff",
         "confirmWorkItemLifecycleAction", "submitWorkItemCommentReply",
         "submitWorkItemCommentEdit", "downloadWorkItemAttachment"}, 2, 0, 0,
         0),
     Scene({"item"}, {"submitWorkItemEdit", "submitWorkItemHandoff"}, 2, 1,
         0, 0),
     Scene({"item"}, {"submitWorkItemComment",
         "submitWorkItemCommentAssign", "submitWorkItemCommentReplyAssign",
         "uploadSelectedWorkItemCommentAttachment",
         "cancelWorkItemCommentDraft"}, 1, 1, 0, 0),
     Scene({"item"}, {"uploadSelectedWorkItemCommentAttachment",
         "cancelWorkItemCommentDraft"}, 2, 0, 0, 0),
     Scene({"item"}, {"uploadSelectedWorkItemAttachment",
         "confirmWorkItemCommentAttachmentDelete"}, 2, 1, 0, 0),
     Scene({"item"}, {"pasteWorkItemPrimaryPostFile",
         "openAttachmentPreview"}, 1, 1, 0, 0),
     Scene({"project", "cycle"}, {"runProjectMutation",
         "submitProjectCycle", "confirmProjectCycleClose",
         "openProjectMemberDialog", "persistProjectTime"}, 1, 0, 0, 0),
     Scene({"resource"}, {"submitProjectResourceUnlock",
         "submitProjectResourceEdit", "submitProjectResourcePasswordReset",
         "uploadSelectedProjectResourceAttachment",
         "confirmProjectResourceArchive"}, 1, 1, 0, 0),
     Scene({"library"}, {"loadFilteredProjectResources",
         "submitProjectResourceCreate", "pasteProjectResourceFile"}, 2, 0, 0,
         0),
     Scene({"list", "item"}, {"submitWorkItemCreate",
         "pasteWorkItemCreateFile", "confirmWorkItemBatchUpdate"}, 1, 1, 0, 0),
     Scene({"time", "projects"}, {"persistTime", "persistTimeSave",
         "confirmTimeChangeRestore", "submitProjectCreate"}, 1, 0, 0, 0),
     Scene({"profile", "messages"}, {"submitProfile", "runAccountSecurity",
         "handleMarkAllRead"}, 1, 1, 0, 0),
     Scene({"stats", "project"}, {"refreshSystemDatabaseStats",
         "handleSetCurrentProject"}, 2, 1, 0, 0),
     Scene({"releases", "users"}, {"runSystemReleaseMutation",
         "uploadSelectedSystemReleaseAsset", "runSystemUserMutation"}, 1, 0, 0,
         0),
     Scene({"roles", "storage", "openapi"}, {"runSystemRoleMutation",
         "runSystemStorageMutation", "runSystemApiTokenMutation"}, 1, 0, 0, 0),
     Scene({"item"}, {"requestWorkItemResourceLibraryLink",
         "submitWorkItemHandoff"}, 1, 0, 1, 1),
     OneMore(Scene({"item"}, {"uploadSelectedWorkItemAttachment",
         "confirmWorkItemCommentAttachmentDelete"}, 1, 0, 0, 0)),
     OneMore(Scene({"project"}, {"openProjectMemberDialog"}, 1, 0, 0, 0))}

\* A file pasted into an item that has no primary post yet.
PasteScene ==
    {Scene({"item"}, {"pasteWorkItemPrimaryPostFile"}, 1, 0, 0, 0)}

=============================================================================
