-------------------------------- MODULE Maps --------------------------------
(***************************************************************************)
(* Maps, their canvas, their frames with screenshots, and what is drawn on *)
(* a frame: focal points with metadata, groups and links.  Creating checks *)
(* no parent and deleting takes nothing along.                             *)
(*                                                                         *)
(* A frame's file is the hash of its screenshot.  A screenshot given as an *)
(* image is stored under the frame's own key; one given as an asset stays  *)
(* where it is, and its hash is Asset.                                     *)
(***************************************************************************)
EXTENDS Rows

CONSTANT MaxMaps    \* the limit of the organisation's plan

\* The map that the table may start with is within the limit.
ASSUME MapsAssumption == MaxMaps \in Nat \ {0} /\ InFlight # 0

VARIABLE failedOpen     \* history: a plan could not be read and a map was let through

MapTables == {"map", "frame", "point", "group", "frameLink", "meta", "canvas"}

CreateMapSteps == <<<<"count", "map">>, <<"insert", "map">>>>
UpdateMapSteps == <<<<"get", "map">>, <<"save", "map">>>>
DeleteMapSteps == <<<<"remove", "map">>>>

\* Mutant: the row is inserted before the image is stored.
CreateFrameRowFirst == <<<<"insert", "frame">>, <<"resolve", "frame">>>>

CreateFrameSteps == <<<<"resolve", "frame">>, <<"insert", "frame">>>>
UpdateFrameSteps == <<<<"get", "frame">>, <<"resolve", "frame">>, <<"save", "frame">>>>
DeleteFrameSteps == <<<<"remove", "frame">>>>

\* SyncFrames with a frameId and without one.
SyncFrameSteps == <<<<"get", "frame">>, <<"resolve", "frame">>, <<"saveAll", "frame">>>>
SyncNewFrameSteps == <<<<"resolve", "frame">>, <<"insert", "frame">>>>

CreateFocalPointSteps == <<<<"insert", "point">>>>
UpdateFocalPointSteps == <<<<"get", "point">>, <<"save", "point">>>>
DeleteFocalPointSteps == <<<<"remove", "point">>>>
CreateGroupSteps == <<<<"insert", "group">>>>
UpdateGroupSteps == <<<<"get", "group">>, <<"save", "group">>>>
DeleteGroupSteps == <<<<"remove", "group">>>>
CreateLinkSteps == <<<<"insert", "frameLink">>>>
UpdateLinkSteps == <<<<"get", "frameLink">>, <<"save", "frameLink">>>>
DeleteLinkSteps == <<<<"remove", "frameLink">>>>
CreateMetaSteps == <<<<"insert", "meta">>>>
UpdateMetaSteps == <<<<"get", "meta">>, <<"save", "meta">>>>
DeleteMetaSteps == <<<<"remove", "meta">>>>
UpsertCanvasSteps == <<<<"getCanvas", "canvas">>, <<"upsert", "canvas">>>>

MapSteps ==
    [createMap |-> CreateMapSteps, updateMap |-> UpdateMapSteps, deleteMap |-> DeleteMapSteps,
     createFrame |-> CreateFrameSteps, updateFrame |-> UpdateFrameSteps,
     deleteFrame |-> DeleteFrameSteps, syncFrame |-> SyncFrameSteps,
     syncNewFrame |-> SyncNewFrameSteps,
     createFocalPoint |-> CreateFocalPointSteps, updateFocalPoint |-> UpdateFocalPointSteps,
     deleteFocalPoint |-> DeleteFocalPointSteps, createGroup |-> CreateGroupSteps,
     updateGroup |-> UpdateGroupSteps, deleteGroup |-> DeleteGroupSteps,
     createLink |-> CreateLinkSteps, updateLink |-> UpdateLinkSteps,
     deleteLink |-> DeleteLinkSteps, createMeta |-> CreateMetaSteps,
     updateMeta |-> UpdateMetaSteps, deleteMeta |-> DeleteMetaSteps]

MapOps == DOMAIN MapSteps \cup {"upsertCanvas"}
MapVerbs == {"count", "resolve", "saveAll", "getCanvas", "upsert"}

MapStart(q, op) ==
    /\ \/ op \in DOMAIN MapSteps
          /\ RowStart(q, op, MapSteps[op],
                      IF Does(MapSteps[op], "resolve") THEN Shots \cup {Asset, Null} ELSE {Null})
       \/ op = "upsertCanvas"
          /\ \E g \in Gives :
               Arrives(q, op, UpsertCanvasSteps,
                       [id |-> Seed, parent |-> Null, link |-> Null, gives |-> g, ref |-> Null,
                        file |-> Null, held |-> Null])
    /\ UNCHANGED <<rowVars, failedOpen>>

(***************************************************************************)
(* The stores.                                                             *)
(***************************************************************************)
\* Mutant: the limit may be exceeded by one.
LimitOffByOne(n) == n > MaxMaps

MapLimitReached(n) == n >= MaxMaps

\* CreateMap counts the maps there are, only when there is a licence server.
CountMaps(q) ==
    /\ At(q, <<"count", "map">>)
    /\ IF MapLimitReached(Cardinality(LiveIds("map"))) THEN Ends(q) ELSE Proceeds(q)
    /\ UNCHANGED rowVars

\* The plan cannot be read: the check fails open.
LimitUnknown(q) ==
    /\ At(q, <<"count", "map">>)
    /\ Skips(q)
    /\ failedOpen' = TRUE
    /\ UNCHANGED rowVars

CreateMap(q) == Inserts(q, "map")
GetMap(q) == Gets(q, "map")
UpdateMap(q) == Saves(q, "map")
SoftDeleteMap(q) == Removes(q, "map")

\* The temporary object of an image uploaded through the gateway is not kept
\* here: a failure to remove it ends the request like any other.
UploadScreenshot(m) == files' = With(files, <<"frame", m.id>>, m.file)

\* Mutant: a frame that has a screenshot keeps it.
AnyScreenshot(m) == m.held # Null /\ m.held.file # Null

\* The hash of what is given is the hash that was read.
SameScreenshot(m) == m.held # Null /\ m.held.file = m.file

ResolveScreenshotAsset(q) ==
    /\ At(q, <<"resolve", "frame">>)
    /\ LET m == Mem(q) IN
       IF m.file = Null THEN Proceeds(q) /\ UNCHANGED files
       ELSE IF SameScreenshot(m)
       THEN (IF Op(q) = "syncFrame" THEN Ends(q) ELSE Proceeds(q)) /\ UNCHANGED files
       ELSE Proceeds(q) /\ IF m.file = Asset THEN UNCHANGED files ELSE UploadScreenshot(m)
    /\ UNCHANGED rows

CreateFrame(q) == Inserts(q, "frame")
GetFrame(q) == Gets(q, "frame")
UpdateFrame(q) == Saves(q, "frame")
SoftDeleteFrame(q) == Removes(q, "frame")

\* A sync gives all columns.
SyncFrame(q) ==
    /\ At(q, <<"saveAll", "frame">>)
    /\ rows' = IF Live("frame", Mem(q).id)
               THEN With(rows, <<"frame", Mem(q).id>>, Merged([Mem(q) EXCEPT !.gives = Columns], q, "frame", Mem(q).held))
               ELSE rows
    /\ Proceeds(q)
    /\ UNCHANGED files

CreateFocalPoint(q) == Inserts(q, "point")
GetFocalPoint(q) == Gets(q, "point")
UpdateFocalPoint(q) == Saves(q, "point")
SoftDeleteFocalPoint(q) == Removes(q, "point")
CreateFrameGroup(q) == Inserts(q, "group")
GetFrameGroup(q) == Gets(q, "group")
UpdateFrameGroup(q) == Saves(q, "group")
SoftDeleteFrameGroup(q) == Removes(q, "group")
CreateFrameLink(q) == Inserts(q, "frameLink")
GetFrameLink(q) == Gets(q, "frameLink")
UpdateFrameLink(q) == Saves(q, "frameLink")
SoftDeleteFrameLink(q) == Removes(q, "frameLink")
CreateFocalPointMeta(q) == Inserts(q, "meta")
GetFocalPointMeta(q) == Gets(q, "meta")
UpdateFocalPointMeta(q) == Saves(q, "meta")
SoftDeleteFocalPointMeta(q) == Removes(q, "meta")

\* A map without a canvas has the default one.
GetCanvas(q) ==
    /\ At(q, <<"getCanvas", "canvas">>)
    /\ Keeps(q, [Mem(q) EXCEPT !.held = IF Live("canvas", Seed) THEN rows[<<"canvas", Seed>>]
                                        ELSE SeedRow(Null)])
    /\ UNCHANGED rowVars

UpsertCanvas(q) ==
    /\ At(q, <<"upsert", "canvas">>)
    /\ rows' = With(rows, <<"canvas", Seed>>, Merged(Mem(q), q, "canvas", Mem(q).held))
    /\ Proceeds(q)
    /\ UNCHANGED files

MapStep(q) ==
    \/ /\ \/ CountMaps(q) \/ CreateMap(q) \/ GetMap(q) \/ UpdateMap(q) \/ SoftDeleteMap(q)
          \/ ResolveScreenshotAsset(q) \/ CreateFrame(q) \/ GetFrame(q) \/ UpdateFrame(q)
          \/ SoftDeleteFrame(q) \/ SyncFrame(q)
          \/ CreateFocalPoint(q) \/ GetFocalPoint(q) \/ UpdateFocalPoint(q) \/ SoftDeleteFocalPoint(q)
          \/ CreateFrameGroup(q) \/ GetFrameGroup(q) \/ UpdateFrameGroup(q) \/ SoftDeleteFrameGroup(q)
          \/ CreateFrameLink(q) \/ GetFrameLink(q) \/ UpdateFrameLink(q) \/ SoftDeleteFrameLink(q)
          \/ CreateFocalPointMeta(q) \/ GetFocalPointMeta(q) \/ UpdateFocalPointMeta(q)
          \/ SoftDeleteFocalPointMeta(q) \/ GetCanvas(q) \/ UpsertCanvas(q)
       /\ UNCHANGED failedOpen
    \/ LimitUnknown(q)

(***************************************************************************)
(* Properties.                                                             *)
(***************************************************************************)
\* Whatever fails or overlaps, a frame whose row has the hash of an image has
\* an image stored: the image is uploaded first.
FrameObjectStored ==
    \A k \in DOMAIN rows : k[1] = "frame" /\ rows[k].file \in Shots => k \in DOMAIN files

\* As long as requests neither overlap nor fail, the image stored for a frame
\* is the one its row has the hash of, although an upload is skipped when the
\* hash is the same and a frame may turn to an asset and back.
ScreenshotMatchesHash ==
    clean /\ Quiet => \A k \in DOMAIN rows :
        k[1] = "frame" /\ rows[k].file \in Shots => k \in DOMAIN files /\ files[k] = rows[k].file

\* Maps are counted in one statement and added in another, so requests under
\* way at once may exceed the limit, each by one map at most, unless the plan
\* could not be read.
MapLimitOvershoot ==
    failedOpen \/ Cardinality(LiveIds("map")) <= MaxMaps + InFlight - 1
=============================================================================
