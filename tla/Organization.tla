---------------------------- MODULE Organization ----------------------------
(***************************************************************************)
(* The organization service: its organizations, departments and projects,  *)
(* and the outbox rows it stages about them.  A handler awaits nothing     *)
(* between loading a row and its commit, so in the one process of the      *)
(* service a request is one step; one that raises before its commit, or    *)
(* does not commit, changes nothing and is no step at all.                 *)
(***************************************************************************)
EXTENDS Naturals

CONSTANTS
    Org, Department, Project,    \* rows, whatever id or slug a PATCH gives them
    MaxRequests                  \* bound: requests of a behaviour

VARIABLES
    row,      \* status of each row, "NONE" before it is created, "GONE" once deleted
    home,     \* organization_id of each department and project
    told,     \* history: the status the last staged event of a row carries
    requests

organization == <<row, home, told>>

Part == Department \cup Project

OrgStatus  == {"ACTIVE", "SUSPENDED", "ARCHIVED"}
PartStatus == {"CREATED", "UPDATED", "DELETED", "ARCHIVED"}
Status     == OrgStatus \cup PartStatus

Init ==
    /\ row = [x \in Org \cup Part |-> "NONE"]
    /\ home = [x \in Part |-> "NONE"]
    /\ told = [x \in Org \cup Part |-> "NONE"]

Request == requests < MaxRequests /\ requests' = requests + 1

There(x) == row[x] \notin {"NONE", "GONE"}

\* The event a commit writes with the row.
Tell(x, status) == told' = [told EXCEPT ![x] = status]

\* A slug that another organization has is rejected.
CreateOrganization(o) ==
    /\ row[o] = "NONE"
    /\ row' = [row EXCEPT ![o] = "ACTIVE"]
    /\ Tell(o, "ACTIVE")
    /\ UNCHANGED home

\* Without its organization the row violates the foreign key.
CreatePart(x, o) ==
    /\ row[x] = "NONE"
    /\ There(o)
    /\ row' = [row EXCEPT ![x] = "CREATED"]
    /\ home' = [home EXCEPT ![x] = o]
    /\ Tell(x, "CREATED")

CreateDepartment(d, o) == CreatePart(d, o)
CreateProjects(p, o)   == CreatePart(p, o)

\* Rows that a delete-orphan cascade deletes, without events of their own.
Delete(parts) == row' = [x \in Org \cup Part |-> IF x \in parts THEN "GONE" ELSE row[x]]

\* PATCH sets any attributes.  A status (a string, where the event wants an Enum)
\* makes the event raise; departments and projects may be set to [], and then all
\* the organization has are deleted.
UpdateOrganization(o) ==
    /\ There(o)
    /\ \E emptied \in {{}, Department, Project, Part} :
          Delete({x \in emptied : There(x) /\ home[x] = o})
    /\ Tell(o, row[o])
    /\ UNCHANGED home

\* A part may be moved to an organization that exists.  If its organization is set to
\* null it is deleted as an orphan: hasattr has loaded it before, so the relationship
\* knows whom it leaves.  The refresh of the deleted row fails after the commit.
UpdatePart(x) ==
    /\ There(x)
    /\ \/ \E o \in Org :
             /\ There(o)
             /\ home' = [home EXCEPT ![x] = o]
             /\ UNCHANGED row
       \/ Delete({x}) /\ UNCHANGED home
    /\ Tell(x, row[x])

UpdateDepartmentData(d) == UpdatePart(d)
UpdateProjectData(p)    == UpdatePart(p)

\* A status that is not listed here is assigned, and rolled back with the
\* session.  update_department_status commits none: the payload it stages for
\* DELETED and ARCHIVED has a UUID in it, which JSON cannot encode.
UpdateStatus(x, status, committed) ==
    /\ There(x)
    /\ status \in committed
    /\ row' = [row EXCEPT ![x] = status]
    /\ Tell(x, status)
    /\ UNCHANGED home

UpdateOrganizationStatus(o, status) == UpdateStatus(o, status, {"ACTIVE", "ARCHIVED"})
UpdateProjectStatus(p, status)      == UpdateStatus(p, status, {"DELETED", "ARCHIVED"})

SuspendOrganization(o) == UpdateStatus(o, "SUSPENDED", {"SUSPENDED"})

Next ==
    /\ Request
    /\ \/ \E o \in Org :
            \/ CreateOrganization(o) \/ UpdateOrganization(o) \/ SuspendOrganization(o)
            \/ \E status \in OrgStatus : UpdateOrganizationStatus(o, status)
            \/ \E d \in Department : CreateDepartment(d, o)
            \/ \E p \in Project : CreateProjects(p, o)
       \/ \E d \in Department : UpdateDepartmentData(d)
       \/ \E p \in Project :
            \/ UpdateProjectData(p)
            \/ \E status \in PartStatus : UpdateProjectStatus(p, status)
=============================================================================
