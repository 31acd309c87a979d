----------------------------- MODULE AppConfig -----------------------------
(***************************************************************************)
(* SystemService: the configuration the apps are served, published and     *)
(* restored by administrators, with a snapshot before each change; the     *)
(* maintenance flag is copied to AdminSettings and cached.                 *)
(***************************************************************************)
EXTENDS Integers, Sequences, Handlers, Redis

CONSTANTS
  Contents,     \* what the other fields can say
  Initial,      \* APP_CONFIG_CREATE's
  Keep,         \* SNAPSHOT_KEEP
  MaxVersion,   \* bound on the versions
  MaxSnapshots  \* bound on the snapshots, which only a publication prunes

ASSUME ConfigAssumption == Initial \in Contents /\ Keep \in Nat \ {0} /\ MaxVersion \in Nat /\ MaxSnapshots \in Nat

MAINTENANCE_KEY == <<"maintenance">>

VARIABLES
  config,       \* the row AppConfig: version, content, maintenance
  snapshots,    \* the rows AppConfigSnapshot, in the order of createdAt
  mirror,       \* AdminSettings.maintenanceMode
  published     \* every configuration there has been, by version (history)

configVars == <<config, snapshots, mirror, published, stores>>

ConfigInit ==
  /\ config = [version |-> 1, content |-> Initial, maintenance |-> FALSE]
  /\ snapshots = <<>>
  /\ mirror = FALSE
  /\ published = <<config>>
  /\ RedisInit

SameRows == UNCHANGED <<config, snapshots, mirror, published>>

Served == IF Get(MAINTENANCE_KEY) = Absent THEN config.maintenance ELSE Get(MAINTENANCE_KEY)

-----------------------------------------------------------------------------
Room ==
  /\ config.version + Cardinality(Busy) < MaxVersion
  /\ Len(snapshots) + Cardinality(Busy) < MaxSnapshots

(* publish: read, snapshot what was read, update the row, copy the flag,   *)
(* cache it, prune.  A patch sets the content, the flag or both.           *)
Publish(r, patch) ==
  /\ Room
  /\ Begin(r, "publish.snapshot", patch, "publish", config)
  /\ UNCHANGED configVars

(* restore: a snapshot's writable fields are published again.              *)
Restore(r, i) ==
  /\ Room
  /\ Begin(r, "restore.read", [content |-> snapshots[i].content, maintenance |-> snapshots[i].maintenance],
           "publish", None)
  /\ UNCHANGED configVars

ReadForRestore(r) ==
  /\ req[r].at = "restore.read"
  /\ Carry(r, "publish.snapshot", config)
  /\ UNCHANGED configVars

(* createSnapshot stops after the snapshot.                                *)
CreateSnapshot(r) ==
  /\ Room
  /\ Begin(r, "publish.snapshot", None, "snapshot", config)
  /\ UNCHANGED configVars

WriteSnapshot_After_Mutant(r) ==
  /\ req[r].at = "publish.snapshot"
  /\ IF req[r].by = "publish" THEN Goto(r, "publish.update") ELSE End(r)
  /\ UNCHANGED configVars

WriteSnapshot(r) ==
  /\ req[r].at = "publish.snapshot"
  /\ snapshots' = Append(snapshots, req[r].saw)
  /\ IF req[r].by = "publish" THEN Goto(r, "publish.update") ELSE End(r)
  /\ UNCHANGED <<config, mirror, published, stores>>

WriteConfig(r) ==
  /\ req[r].at = "publish.update"
  /\ config' = [version |-> config.version + 1,
                content |-> IF req[r].on.content = None THEN config.content ELSE req[r].on.content,
                maintenance |-> IF req[r].on.maintenance = None THEN config.maintenance
                                                                ELSE req[r].on.maintenance]
  /\ published' = Append(published, config')
  /\ Carry(r, "publish.copy", config')
  /\ UNCHANGED <<snapshots, mirror, stores>>

CopyFlag(r) ==
  /\ req[r].at = "publish.copy"
  /\ mirror' = req[r].saw.maintenance
  /\ Goto(r, "publish.cache")
  /\ UNCHANGED <<config, snapshots, published, stores>>

(* The cache may be away; cacheMaintenance and isMaintenanceEnabled go on. *)
CacheFlag(r) ==
  /\ req[r].at = "publish.cache"
  /\ \/ Put(MAINTENANCE_KEY, req[r].saw.maintenance)
     \/ Faults /\ UNCHANGED stores
  /\ Goto(r, "publish.prune")
  /\ SameRows

Prune(r) ==
  /\ req[r].at = "publish.prune"
  /\ LET extra == Len(snapshots) - Keep
     IN  snapshots' = IF extra > 0 THEN SubSeq(snapshots, extra + 1, Len(snapshots)) ELSE snapshots
  /\ End(r)
  /\ UNCHANGED <<config, mirror, published, stores>>

-----------------------------------------------------------------------------
(* isMaintenanceEnabled, on every request: the cache, or else the row,     *)
(* also when the read of the cache throws; the row then fills the cache.   *)
AskFlag(r) ==
  /\ Get(MAINTENANCE_KEY) = Absent \/ Faults
  /\ Begin(r, "flag.read", None, None, None)
  /\ UNCHANGED configVars

ReadFlag(r) ==
  /\ req[r].at = "flag.read"
  /\ Carry(r, "flag.fill", config.maintenance)
  /\ UNCHANGED configVars

FillFlag(r) ==
  /\ req[r].at = "flag.fill"
  /\ \/ Put(MAINTENANCE_KEY, req[r].saw)
     \/ Faults /\ UNCHANGED stores
  /\ End(r)
  /\ SameRows

(* What was cached lives for a minute, or five.                            *)
ExpireFlag_Never_Mutant == FALSE /\ UNCHANGED <<configVars, flight>>

ExpireFlag ==
  /\ ExpireKey(MAINTENANCE_KEY)
  /\ UNCHANGED flight /\ SameRows

StopConfig(r) == Die(r) /\ UNCHANGED configVars

Patches == [content : Contents \cup {None}, maintenance : BOOLEAN \cup {None}] \ {[content |-> None, maintenance |-> None]}

ConfigArrive(r) ==
  \/ \E patch \in Patches : Publish(r, patch)
  \/ \E i \in DOMAIN snapshots : Restore(r, i)
  \/ CreateSnapshot(r) \/ AskFlag(r)

ConfigGoOn(r) ==
  \/ ReadForRestore(r) \/ WriteSnapshot(r) \/ WriteConfig(r) \/ CopyFlag(r)
  \/ CacheFlag(r)      \/ Prune(r)         \/ ReadFlag(r)    \/ FillFlag(r)

ConfigNext ==
  \/ \E r \in Requests : ConfigArrive(r) \/ ConfigGoOn(r) \/ StopConfig(r)
  \/ ExpireFlag

ConfigSpec == ConfigInit /\ FlightInit /\ [][ConfigNext]_<<configVars, flight>>

-----------------------------------------------------------------------------
ConfigTypeOK ==
  /\ config \in [version : 1..MaxVersion, content : Contents, maintenance : BOOLEAN]
  /\ Len(published) = config.version /\ published[config.version] = config
  /\ mirror \in BOOLEAN
  /\ redis[MAINTENANCE_KEY] \in BOOLEAN \cup {Absent}
  /\ memory[MAINTENANCE_KEY] \in BOOLEAN \cup {Absent}

(* One request at a time, though they may die: every configuration that    *)
(* was replaced can be restored, until Keep newer snapshots push it out    *)
(* (publish: "Automatic backup before publish").                           *)
NoVersionIsLost ==
  OneByOne => \A v \in 1..(config.version - 1) :
    \/ \E i \in DOMAIN snapshots : snapshots[i] = published[v]
    \/ /\ Len(snapshots) >= Keep
       /\ \A i \in DOMAIN snapshots : snapshots[i].version >= v

(* However publishing, asking, crashes and a failing cache overlap, in the *)
(* end everybody is served the flag that was published last, since what is *)
(* cached expires (isMaintenanceEnabled, cacheMaintenance).                *)
FlagSettles == <>[](Served = config.maintenance)
=============================================================================
