---------------------------- MODULE KycDocuments ----------------------------
(***************************************************************************)
(* One identity document of a customer: the row in the auth database, the  *)
(* file in the object store, and uploads that replace both.  An action is  *)
(* what a request does between two awaits.  Staff who look at it are in    *)
(* StaffAccess.                                                            *)
(***************************************************************************)
CONSTANTS
    Uploads    \* requests to upload; the object an upload writes bears its name

NoKey == "none"
Keys == Uploads \cup {NoKey}

VARIABLES
    stored,    \* the objects in the store
    row,       \* objectKey of the document's row, NoKey if there is none
    upload     \* each upload: where it is, and the key in the row it read

vars == <<stored, row, upload>>

UploadPhases == {"idle", "finding", "removing", "updating", "inserting", "cut", "over"}

TypeOK ==
    /\ stored \subseteq Uploads
    /\ row \in Keys
    /\ upload \in [Uploads -> [at : UploadPhases, seen : Keys]]

Init ==
    /\ stored = {} /\ row = NoKey
    /\ upload = [u \in Uploads |-> [at |-> "idle", seen |-> NoKey]]

-----------------------------------------------------------------------------
\* One object per document, overwritten by the next upload.
OneKey(u) == CHOOSE k \in Uploads : TRUE

\* A key no other upload has.
NewKey(u) == u

To(u, phase) == upload' = [upload EXCEPT ![u].at = phase]

\* The file first; without it nothing else happens.
Put(u) ==
    /\ upload[u].at = "idle"
    /\ \/ stored' = stored \cup {NewKey(u)} /\ To(u, "finding")
       \/ UNCHANGED stored /\ To(u, "over")
    /\ UNCHANGED row

\* After the text was read off the image, or not.
FindExisting(u) ==
    /\ upload[u].at = "finding"
    /\ upload' = [upload EXCEPT ![u] =
           [at |-> IF row = NoKey THEN "inserting" ELSE "removing", seen |-> row]]
    /\ UNCHANGED <<stored, row>>

\* A removal that fails is logged, and the object stays.
Remove(u) ==
    /\ upload[u].at = "removing"
    /\ \/ stored' = stored \ {upload[u].seen}
       \/ UNCHANGED stored
    /\ To(u, "updating")
    /\ UNCHANGED row

Update(u) ==
    /\ upload[u].at = "updating"
    /\ row' = NewKey(u)
    /\ To(u, "over")
    /\ UNCHANGED stored

\* One row per customer and kind of document: another's insert makes this fail.
Insert(u) ==
    /\ upload[u].at = "inserting"
    /\ row' = IF row = NoKey THEN NewKey(u) ELSE row
    /\ To(u, "over")
    /\ UNCHANGED stored

\* The process dies, or the database refuses.
Cut(u) ==
    /\ upload[u].at \notin {"idle", "cut", "over"}
    /\ To(u, IF upload[u].at = "updating" THEN "cut" ELSE "over")
    /\ UNCHANGED <<stored, row>>

Next ==
    \E u \in Uploads : Put(u) \/ FindExisting(u) \/ Remove(u) \/ Update(u) \/ Insert(u) \/ Cut(u)

Spec == Init /\ [][Next]_vars
-----------------------------------------------------------------------------
(***************************************************************************)
(* Properties                                                              *)
(***************************************************************************)
\* The file the row names is in the store, however uploads of the document race,
\* but while (or because) one of them stopped between removing that file and
\* writing its own key.
FileIsThere ==
    row # NoKey /\ row \notin stored =>
        \E u \in Uploads : upload[u].seen = row /\ upload[u].at \in {"updating", "cut"}
=============================================================================
