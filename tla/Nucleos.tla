------------------------------ MODULE Nucleos ------------------------------
(***************************************************************************)
(* The núcleos of a user and the cached list of them.                      *)
(***************************************************************************)
EXTENDS Cache

CONSTANT Home       \* the núcleo registration creates

ASSUME NucleosAssumption == Home \notin Requests \cup {Nobody}

NucleoIds == Requests \cup {Home}
nucleosByUser == <<"nucleos:user", Nobody>>

VARIABLE nucleos    \* the rows, by id; edition is the request that set what users edit

AbsentNucleo == [exists |-> FALSE, deleted |-> FALSE, edition |-> Nobody]

LiveNucleos == {n \in NucleoIds : nucleos[n].exists /\ ~ nucleos[n].deleted}

NucleosInit == nucleos = [n \in NucleoIds |-> [AbsentNucleo EXCEPT !.exists = (n = Home)]]

-----------------------------------------------------------------------------
(* NucleosController *)

ListNucleos(r) ==
    /\ Arrive(r, "getNucleos", "listNucleos", Nobody, Nobody)
    /\ UNCHANGED <<nucleos, caches>>

GetNucleo(r) ==
    /\ \E n \in NucleoIds : nucleos[n].exists /\ Arrive(r, "findNucleo", "getNucleo", n, Nobody)
    /\ UNCHANGED <<nucleos, caches>>

CreateNucleo(r) ==
    /\ \/ Arrive(r, "findIcon", "createNucleo", r, Nobody)
       \/ Refuse(r, "createNucleo", 400)
    /\ UNCHANGED <<nucleos, caches>>

UpdateNucleo(r) ==
    /\ \E n \in NucleoIds : nucleos[n].exists /\ Arrive(r, "findNucleo", "updateNucleo", n, Nobody)
    /\ UNCHANGED <<nucleos, caches>>

DeleteNucleo(r) ==
    /\ \E n \in NucleoIds : nucleos[n].exists /\ Arrive(r, "findNucleo", "deleteNucleo", n, Nobody)
    /\ UNCHANGED <<nucleos, caches>>

-----------------------------------------------------------------------------
(* CreateNucleoHandler *)

(* The name of an icon may be unknown.                                     *)
FindIcon(r) ==
    /\ At(r, "findIcon")
    /\ \/ Reply(r, 400)
       \/ Goto(r, IF call[r].op = "createNucleo" THEN "saveNucleo" ELSE "updateNucleo")
    /\ UNCHANGED <<nucleos, caches>>

SaveNucleo(r) ==
    /\ At(r, "saveNucleo")
    /\ nucleos' = [nucleos EXCEPT ![r] = [AbsentNucleo EXCEPT !.exists = TRUE, !.edition = r]]
    /\ Goto(r, "uncacheNucleos")
    /\ UNCHANGED caches

(* deleteCache(nucleosByUser), after a creation or a deletion.             *)
UncacheNucleos(r) ==
    /\ At(r, "uncacheNucleos")
    /\ IF call[r].op = "createNucleo" THEN Goto(r, "notifyNucleo") ELSE Reply(r, 204)
    /\ DeleteCache({nucleosByUser})
    /\ UNCHANGED nucleos

(* NucleoCriadoEvent is dispatched, then createNotification: a failure of  *)
(* the second is answered 400, for a núcleo that was created.              *)
NotifyNucleo(r) ==
    /\ At(r, "notifyNucleo")
    /\ Reply(r, 201)
    /\ UNCHANGED <<nucleos, caches>>

-----------------------------------------------------------------------------
(* UpdateNucleoHandler, DeleteNucleoHandler, GetNucleoByIdHandler *)

(* findById: 404 or 400 without a live row.  A name too short or a tipo    *)
(* that is empty throws before anything is written; an icon given by name  *)
(* is looked up.                                                           *)
FindNucleo(r) ==
    /\ At(r, "findNucleo")
    /\ LET live == call[r].id \in LiveNucleos
       IN  \/ ~ live /\ Reply(r, IF call[r].op = "getNucleo" THEN 404 ELSE 400)
           \/ live /\ call[r].op = "getNucleo" /\ Reply(r, 200)
           \/ live /\ call[r].op = "updateNucleo"
              /\ \/ Reply(r, 400)
                 \/ \E next \in {"findIcon", "updateNucleo"} : Keep(r, nucleos[call[r].id], next)
           \/ live /\ call[r].op = "deleteNucleo" /\ Goto(r, "deleteNucleo")
    /\ UNCHANGED <<nucleos, caches>>

(* NucleoRepository.update writes deleted_at as it was read, and does not  *)
(* ask whether the row was deleted since; the cached list stays.           *)
WriteNucleo(r) ==
    /\ At(r, "updateNucleo")
    /\ nucleos' = [nucleos EXCEPT ![call[r].id] = [call[r].read EXCEPT !.edition = r]]
    /\ Reply(r, 200)
    /\ UNCHANGED caches

(* The blocos of the núcleo are left as they are.                          *)
SoftDeleteNucleo(r) ==
    /\ At(r, "deleteNucleo")
    /\ nucleos' = [nucleos EXCEPT ![call[r].id].deleted = TRUE]
    /\ Goto(r, "uncacheNucleos")
    /\ UNCHANGED caches

-----------------------------------------------------------------------------
(* GetNucleosHandler *)

GetNucleos(r) ==
    /\ At(r, "getNucleos")
    /\ GetCache(r, nucleosByUser, "findNucleos")
    /\ UNCHANGED nucleos

FindNucleos(r) ==
    /\ At(r, "findNucleos")
    /\ Keep(r, LiveNucleos, "cacheNucleos")
    /\ UNCHANGED <<nucleos, caches>>

CacheNucleos(r) ==
    /\ At(r, "cacheNucleos")
    /\ SetCache(r, nucleosByUser, call[r].read)
    /\ UNCHANGED nucleos

-----------------------------------------------------------------------------
NucleosStep(r) ==
    \/ FindIcon(r) \/ SaveNucleo(r) \/ UncacheNucleos(r) \/ NotifyNucleo(r)
    \/ FindNucleo(r) \/ WriteNucleo(r) \/ SoftDeleteNucleo(r)
    \/ GetNucleos(r) \/ FindNucleos(r) \/ CacheNucleos(r)

NucleosArrival(r) ==
    ListNucleos(r) \/ GetNucleo(r) \/ CreateNucleo(r) \/ UpdateNucleo(r) \/ DeleteNucleo(r)

(* The labels at which a handler waits for the database.                   *)
NucleosQueries == {"findIcon", "saveNucleo", "notifyNucleo", "findNucleo", "updateNucleo",
                   "deleteNucleo", "findNucleos"}

=============================================================================
