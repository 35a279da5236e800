------------------------- MODULE ConfigStoreProofs -------------------------
(***************************************************************************)
(* Proofs about ConfigStore, for every set of items, writers and timers    *)
(* and every bound.  IInv is inductive; the invariants the runs check are  *)
(* conjuncts of it.  And the manager implements DurableSettings: every      *)
(* step maps to a step of DurableSettings or to none, from the invariant   *)
(* and what is known of a directory that is still empty.                   *)
(***************************************************************************)
EXTENDS ConfigStoreDurable, TLAPS

\* An update begins: its clone keeps every runtime state, and the item it adds
\* left none behind.
LEMMA UpdateStep ==
    ASSUME IInv, NEW w \in Writers, Update(w)
    PROVE  IInv'
<1>1. TypeOK'
  BY ItemsAssumption, BoundsAssumption
  DEF IInv, TypeOK, ConfType, RtType, Savers, Flushers, Empty, AllZero,
      LockInv, DiskInv, CloneInv, Preserved, Update, memory, window, flusher,
      files, bounds
<1>2. LockInv'
  BY ProcsAssumption
  DEF IInv, TypeOK, Savers, LockInv, Update, Preserved, memory, window,
      flusher, files, bounds
<1>3. DiskInv'
  BY ProcsAssumption
  DEF IInv, TypeOK, Savers, ConfType, Empty, AllZero, LockInv, DiskInv,
      CommittedIsOnDisk, Update, Preserved, memory, window, flusher, files,
      bounds
<1>4. CloneInv'
  BY ItemsAssumption, ProcsAssumption, FilesAssumption
  DEF IInv, TypeOK, Savers, Flushers, ConfType, RtType, Empty, AllZero,
      LockInv, FlushLockInv, CloneInv, Preserved, DiskInv, Update, memory,
      window, flusher, files, bounds
<1>5. FreshInv'
  BY ItemsAssumption, ProcsAssumption, FilesAssumption
  DEF IInv, TypeOK, Savers, Flushers, ConfType, RtType, Empty, AllZero,
      LockInv, FlushLockInv, FreshInv, FreshItem, UsedInv, CloneInv,
      Preserved, DiskInv, Update, memory, window, flusher, files, bounds
<1>6. UsedInv'
  BY ProcsAssumption
  DEF IInv, TypeOK, Savers, ConfType, Empty, LockInv, UsedInv, Update,
      Preserved, memory, window, flusher, files, bounds
<1>7. ShotInv'
  BY ItemsAssumption, ProcsAssumption
  DEF IInv, TypeOK, Savers, Flushers, ConfType, RtType, Empty, LockInv,
      FlushLockInv, CloneInv, Preserved, FreshInv, FreshItem, UsedInv,
      ShotInv, DiskInv, CommittedIsOnDisk, Update, memory, window, flusher,
      files, bounds
<1>8. CommittedIsOnDisk'
  BY ProcsAssumption
  DEF IInv, TypeOK, Savers, LockInv, DiskInv, CommittedIsOnDisk, Update,
      Preserved, memory, window, flusher, files, bounds
<1>9. NothingForgotten'
  BY ItemsAssumption, ProcsAssumption, FilesAssumption
  DEF IInv, TypeOK, Savers, Flushers, ConfType, RtType, LockInv, FlushLockInv,
      CloneInv, Preserved, FreshInv, FreshItem, UsedInv, ShotInv, DiskInv,
      CommittedIsOnDisk, NothingForgotten, Owed, SkipsOnlyWhatIsWritten,
      Update, memory, window, flusher, files, bounds
<1>10. FlushLockInv' /\ KeyInv' /\ SkipsOnlyWhatIsWritten'
  BY DEF IInv, FlushLockInv, KeyInv, SkipsOnlyWhatIsWritten, Update, memory,
      window, flusher, files, bounds
<1>. QED BY <1>1, <1>2, <1>3, <1>4, <1>5, <1>6, <1>7, <1>8, <1>9, <1>10 DEF IInv

\* A replacement begins: the same, except that it may bring an old item back.
LEMMA ReplaceStep ==
    ASSUME IInv, NEW w \in Writers, Replace(w)
    PROVE  IInv'
<1>1. TypeOK'
  BY ItemsAssumption, BoundsAssumption
  DEF IInv, TypeOK, ConfType, RtType, Savers, Flushers, Empty, AllZero,
      LockInv, DiskInv, CloneInv, Preserved, Replace, memory, window, flusher,
      files, bounds
<1>2. LockInv'
  BY ProcsAssumption
  DEF IInv, TypeOK, Savers, LockInv, Replace, Preserved, memory, window,
      flusher, files, bounds
<1>3. DiskInv'
  BY ProcsAssumption
  DEF IInv, TypeOK, Savers, ConfType, Empty, AllZero, LockInv, DiskInv,
      CommittedIsOnDisk, Replace, Preserved, memory, window, flusher, files,
      bounds
<1>4. CloneInv'
  BY ItemsAssumption, ProcsAssumption, FilesAssumption
  DEF IInv, TypeOK, Savers, Flushers, ConfType, RtType, Empty, AllZero,
      LockInv, FlushLockInv, CloneInv, Preserved, DiskInv, Replace, memory,
      window, flusher, files, bounds
<1>5. FreshInv'
  BY ItemsAssumption, ProcsAssumption, FilesAssumption
  DEF IInv, TypeOK, Savers, Flushers, ConfType, RtType, Empty, AllZero,
      LockInv, FlushLockInv, FreshInv, FreshItem, UsedInv, CloneInv,
      Preserved, DiskInv, Replace, memory, window, flusher, files, bounds
<1>6. UsedInv'
  BY ProcsAssumption
  DEF IInv, TypeOK, Savers, ConfType, Empty, LockInv, UsedInv, Replace,
      Preserved, memory, window, flusher, files, bounds
<1>7. ShotInv'
  BY ItemsAssumption, ProcsAssumption
  DEF IInv, TypeOK, Savers, Flushers, ConfType, RtType, Empty, LockInv,
      FlushLockInv, CloneInv, Preserved, FreshInv, FreshItem, UsedInv,
      ShotInv, DiskInv, CommittedIsOnDisk, Replace, memory, window, flusher,
      files, bounds
<1>8. CommittedIsOnDisk'
  BY ProcsAssumption
  DEF IInv, TypeOK, Savers, LockInv, DiskInv, CommittedIsOnDisk, Replace,
      Preserved, memory, window, flusher, files, bounds
<1>9. NothingForgotten'
  BY ItemsAssumption, ProcsAssumption, FilesAssumption
  DEF IInv, TypeOK, Savers, Flushers, ConfType, RtType, LockInv, FlushLockInv,
      CloneInv, Preserved, FreshInv, FreshItem, UsedInv, ShotInv, DiskInv,
      CommittedIsOnDisk, NothingForgotten, Owed, SkipsOnlyWhatIsWritten,
      Replace, memory, window, flusher, files, bounds
<1>10. FlushLockInv' /\ KeyInv' /\ SkipsOnlyWhatIsWritten'
  BY DEF IInv, FlushLockInv, KeyInv, SkipsOnlyWhatIsWritten, Replace, memory,
      window, flusher, files, bounds
<1>. QED BY <1>1, <1>2, <1>3, <1>4, <1>5, <1>6, <1>7, <1>8, <1>9, <1>10 DEF IInv

\* The key is on the disk before anything is sealed with it.
LEMMA EnsureKeyStep ==
    ASSUME IInv, NEW s \in Savers, EnsureKey(s)
    PROVE  IInv'
<1>1. TypeOK'
  BY ItemsAssumption, BoundsAssumption
  DEF IInv, TypeOK, ConfType, RtType, Savers, Flushers, Empty, AllZero,
      LockInv, DiskInv, CloneInv, Preserved, EnsureKey, GiveUp, Fails,
      Succeeds, memory, window, flusher
<1>2. LockInv'
  BY ProcsAssumption
  DEF IInv, TypeOK, Savers, LockInv, EnsureKey, GiveUp, Fails, Succeeds,
      memory, window, flusher
<1>3. FlushLockInv'
  BY ProcsAssumption
  DEF IInv, TypeOK, Savers, Flushers, LockInv, FlushLockInv, EnsureKey,
      GiveUp, Fails, Succeeds, memory, window, flusher
<1>4. KeyInv'
  BY DEF IInv, TypeOK, KeyInv, EnsureKey, GiveUp, Fails, Succeeds, memory,
      window, flusher
<1>5. DiskInv'
  BY ProcsAssumption
  DEF IInv, TypeOK, Savers, ConfType, Empty, AllZero, LockInv, DiskInv,
      CommittedIsOnDisk, EnsureKey, GiveUp, Fails, Succeeds, memory, window,
      flusher
<1>6. CloneInv'
  BY ItemsAssumption, ProcsAssumption, FilesAssumption
  DEF IInv, TypeOK, Savers, Flushers, ConfType, RtType, Empty, AllZero,
      LockInv, FlushLockInv, CloneInv, Preserved, DiskInv, EnsureKey, GiveUp,
      Fails, Succeeds, memory, window, flusher
<1>7. FreshInv'
  BY ItemsAssumption, ProcsAssumption, FilesAssumption
  DEF IInv, TypeOK, Savers, Flushers, ConfType, RtType, Empty, AllZero,
      LockInv, FlushLockInv, FreshInv, FreshItem, UsedInv, CloneInv,
      Preserved, DiskInv, EnsureKey, GiveUp, Fails, Succeeds, memory, window,
      flusher
<1>8. UsedInv'
  BY ProcsAssumption
  DEF IInv, TypeOK, Savers, ConfType, Empty, LockInv, UsedInv, EnsureKey,
      GiveUp, Fails, Succeeds, memory, window, flusher
<1>9. ShotInv'
  BY ItemsAssumption, ProcsAssumption
  DEF IInv, TypeOK, Savers, Flushers, ConfType, RtType, Empty, LockInv,
      FlushLockInv, CloneInv, Preserved, FreshInv, FreshItem, UsedInv,
      ShotInv, DiskInv, CommittedIsOnDisk, EnsureKey, GiveUp, Fails, Succeeds,
      memory, window, flusher
<1>10. CommittedIsOnDisk'
  BY ProcsAssumption
  DEF IInv, TypeOK, Savers, LockInv, DiskInv, CommittedIsOnDisk, EnsureKey,
      GiveUp, Fails, Succeeds, memory, window, flusher
<1>11. NothingForgotten'
  BY ItemsAssumption, ProcsAssumption, FilesAssumption
  DEF IInv, TypeOK, Savers, Flushers, ConfType, RtType, LockInv, FlushLockInv,
      CloneInv, Preserved, FreshInv, FreshItem, UsedInv, ShotInv, DiskInv,
      CommittedIsOnDisk, NothingForgotten, Owed, SkipsOnlyWhatIsWritten,
      EnsureKey, GiveUp, Fails, Succeeds, memory, window, flusher
<1>12. SkipsOnlyWhatIsWritten'
  BY DEF IInv, SkipsOnlyWhatIsWritten, EnsureKey, memory, window, flusher
<1>. QED BY <1>1, <1>2, <1>3, <1>4, <1>5, <1>6, <1>7, <1>8, <1>9, <1>10,
    <1>11, <1>12 DEF IInv

\* config.json changes before the memory does.
LEMMA WriteConfigStep ==
    ASSUME IInv, NEW s \in Savers, WriteConfig(s)
    PROVE  IInv'
<1>1. TypeOK'
  <2>1. OnDisk(next.conf, box) \in [exists : BOOLEAN, conf : ConfType,
           rt : RtType, key : Keys \cup {NoKey},
           owes : {"nothing", "jwt", "migration"}]
    BY ItemsAssumption, BoundsAssumption
    DEF IInv, TypeOK, ConfType, RtType, Savers, Flushers, Empty, AllZero,
        LockInv, DiskInv, CloneInv, Preserved, WriteConfig, OnDisk, GiveUp,
        Fails, Succeeds, memory, window, flusher
  <2>. QED
    BY <2>1, ItemsAssumption, BoundsAssumption
    DEF IInv, TypeOK, ConfType, RtType, Savers, Flushers, Empty, AllZero,
        LockInv, DiskInv, CloneInv, Preserved, WriteConfig, GiveUp, Fails,
        Succeeds, memory, window, flusher
<1>2. LockInv'
  BY ProcsAssumption
  DEF IInv, TypeOK, Savers, LockInv, WriteConfig, OnDisk, GiveUp, Fails,
      Succeeds, memory, window, flusher
<1>3. FlushLockInv'
  BY ProcsAssumption
  DEF IInv, TypeOK, Savers, Flushers, LockInv, FlushLockInv, WriteConfig,
      OnDisk, GiveUp, Fails, Succeeds, memory, window, flusher
<1>4. KeyInv'
  BY DEF IInv, TypeOK, KeyInv, WriteConfig, OnDisk, GiveUp, Fails, Succeeds,
      memory, window, flusher
<1>5. DiskInv'
  BY ProcsAssumption
  DEF IInv, TypeOK, Savers, ConfType, Empty, AllZero, LockInv, DiskInv,
      CommittedIsOnDisk, WriteConfig, OnDisk, GiveUp, Fails, Succeeds, memory,
      window, flusher
<1>6. CloneInv'
  BY ItemsAssumption, ProcsAssumption, FilesAssumption
  DEF IInv, TypeOK, Savers, Flushers, ConfType, RtType, Empty, AllZero,
      LockInv, FlushLockInv, CloneInv, Preserved, DiskInv, WriteConfig,
      OnDisk, GiveUp, Fails, Succeeds, memory, window, flusher
<1>7. FreshInv'
  BY ItemsAssumption, ProcsAssumption, FilesAssumption
  DEF IInv, TypeOK, Savers, Flushers, ConfType, RtType, Empty, AllZero,
      LockInv, FlushLockInv, FreshInv, FreshItem, UsedInv, CloneInv,
      Preserved, DiskInv, WriteConfig, OnDisk, GiveUp, Fails, Succeeds,
      memory, window, flusher
<1>8. UsedInv'
  BY ProcsAssumption
  DEF IInv, TypeOK, Savers, ConfType, Empty, LockInv, UsedInv, WriteConfig,
      OnDisk, GiveUp, Fails, Succeeds, memory, window, flusher
<1>9. ShotInv'
  BY ItemsAssumption, ProcsAssumption
  DEF IInv, TypeOK, Savers, Flushers, ConfType, RtType, Empty, LockInv,
      FlushLockInv, CloneInv, Preserved, FreshInv, FreshItem, UsedInv,
      ShotInv, DiskInv, CommittedIsOnDisk, WriteConfig, OnDisk, GiveUp, Fails,
      Succeeds, memory, window, flusher
<1>10. CommittedIsOnDisk'
  BY ProcsAssumption
  DEF IInv, TypeOK, Savers, LockInv, DiskInv, CommittedIsOnDisk, WriteConfig,
      OnDisk, GiveUp, Fails, Succeeds, memory, window, flusher
<1>11. NothingForgotten'
  BY ItemsAssumption, ProcsAssumption, FilesAssumption
  DEF IInv, TypeOK, Savers, Flushers, ConfType, RtType, LockInv, FlushLockInv,
      CloneInv, Preserved, FreshInv, FreshItem, UsedInv, ShotInv, DiskInv,
      CommittedIsOnDisk, NothingForgotten, Owed, SkipsOnlyWhatIsWritten,
      WriteConfig, OnDisk, GiveUp, Fails, Succeeds, memory, window, flusher
<1>12. SkipsOnlyWhatIsWritten'
  BY DEF IInv, SkipsOnlyWhatIsWritten, WriteConfig, memory, window, flusher
<1>. QED BY <1>1, <1>2, <1>3, <1>4, <1>5, <1>6, <1>7, <1>8, <1>9, <1>10,
    <1>11, <1>12 DEF IInv

\* The memory catches up with config.json; a replacement has the mark to set.
LEMMA CommitStep ==
    ASSUME IInv, NEW s \in Savers, Commit(s)
    PROVE  IInv'
<1>1. TypeOK'
  BY ItemsAssumption, BoundsAssumption
  DEF IInv, TypeOK, ConfType, RtType, Savers, Flushers, Empty, AllZero,
      LockInv, DiskInv, CloneInv, Preserved, Commit, window, flusher, files,
      bounds
<1>2. LockInv'
  BY ProcsAssumption
  DEF IInv, TypeOK, Savers, LockInv, Commit, window, flusher, files, bounds
<1>3. FlushLockInv'
  BY ProcsAssumption
  DEF IInv, TypeOK, Savers, Flushers, LockInv, FlushLockInv, Commit, window,
      flusher, files, bounds
<1>4. DiskInv'
  BY ProcsAssumption
  DEF IInv, TypeOK, Savers, ConfType, Empty, AllZero, LockInv, DiskInv,
      CommittedIsOnDisk, Commit, window, flusher, files, bounds
<1>5. CloneInv'
  BY ItemsAssumption, ProcsAssumption, FilesAssumption
  DEF IInv, TypeOK, Savers, Flushers, ConfType, RtType, Empty, AllZero,
      LockInv, FlushLockInv, CloneInv, Preserved, DiskInv, Commit, window,
      flusher, files, bounds
<1>6. FreshInv'
  BY ItemsAssumption, ProcsAssumption, FilesAssumption
  DEF IInv, TypeOK, Savers, Flushers, ConfType, RtType, Empty, AllZero,
      LockInv, FlushLockInv, FreshInv, FreshItem, UsedInv, CloneInv,
      Preserved, DiskInv, Commit, window, flusher, files, bounds
<1>7. UsedInv'
  BY ProcsAssumption
  DEF IInv, TypeOK, Savers, ConfType, Empty, LockInv, UsedInv, Commit, window,
      flusher, files, bounds
<1>8. ShotInv'
  BY ItemsAssumption, ProcsAssumption
  DEF IInv, TypeOK, Savers, Flushers, ConfType, RtType, Empty, LockInv,
      FlushLockInv, CloneInv, Preserved, FreshInv, FreshItem, UsedInv,
      ShotInv, DiskInv, CommittedIsOnDisk, Commit, window, flusher, files,
      bounds
<1>9. CommittedIsOnDisk'
  BY ProcsAssumption
  DEF IInv, TypeOK, Savers, LockInv, DiskInv, CommittedIsOnDisk, Commit,
      window, flusher, files, bounds
<1>10. NothingForgotten'
  BY ItemsAssumption, ProcsAssumption, FilesAssumption
  DEF IInv, TypeOK, Savers, Flushers, ConfType, RtType, LockInv, FlushLockInv,
      CloneInv, Preserved, FreshInv, FreshItem, UsedInv, ShotInv, DiskInv,
      CommittedIsOnDisk, NothingForgotten, Owed, SkipsOnlyWhatIsWritten,
      Commit, window, flusher, files, bounds
<1>11. KeyInv' /\ SkipsOnlyWhatIsWritten'
  BY DEF IInv, KeyInv, SkipsOnlyWhatIsWritten, Commit, window, flusher, files,
      bounds
<1>. QED BY <1>1, <1>2, <1>3, <1>4, <1>5, <1>6, <1>7, <1>8, <1>9, <1>10, <1>11 DEF IInv

\* A report is visible, and its author has the mark to set.
LEMMA UpdateStateStep ==
    ASSUME IInv, NEW w \in Writers, UpdateState(w)
    PROVE  IInv'
<1>1. TypeOK'
  BY ItemsAssumption, BoundsAssumption
  DEF IInv, TypeOK, ConfType, RtType, Savers, Flushers, Empty, AllZero,
      LockInv, DiskInv, CloneInv, Preserved, UpdateState, window, flusher,
      files, bounds
<1>2. LockInv'
  BY ProcsAssumption
  DEF IInv, TypeOK, Savers, LockInv, UpdateState, window, flusher, files,
      bounds
<1>3. DiskInv'
  BY ProcsAssumption
  DEF IInv, TypeOK, Savers, ConfType, Empty, AllZero, LockInv, DiskInv,
      CommittedIsOnDisk, UpdateState, window, flusher, files, bounds
<1>4. CloneInv'
  BY ItemsAssumption, ProcsAssumption, FilesAssumption
  DEF IInv, TypeOK, Savers, Flushers, ConfType, RtType, Empty, AllZero,
      LockInv, FlushLockInv, CloneInv, Preserved, DiskInv, UpdateState,
      window, flusher, files, bounds
<1>5. FreshInv'
  BY ItemsAssumption, ProcsAssumption, FilesAssumption
  DEF IInv, TypeOK, Savers, Flushers, ConfType, RtType, Empty, AllZero,
      LockInv, FlushLockInv, FreshInv, FreshItem, UsedInv, CloneInv,
      Preserved, DiskInv, UpdateState, window, flusher, files, bounds
<1>6. UsedInv'
  BY ProcsAssumption
  DEF IInv, TypeOK, Savers, ConfType, Empty, LockInv, UsedInv, UpdateState,
      window, flusher, files, bounds
<1>7. ShotInv'
  BY ItemsAssumption, ProcsAssumption
  DEF IInv, TypeOK, Savers, Flushers, ConfType, RtType, Empty, LockInv,
      FlushLockInv, CloneInv, Preserved, FreshInv, FreshItem, UsedInv,
      ShotInv, DiskInv, CommittedIsOnDisk, UpdateState, window, flusher,
      files, bounds
<1>8. CommittedIsOnDisk'
  BY ProcsAssumption
  DEF IInv, TypeOK, Savers, LockInv, DiskInv, CommittedIsOnDisk, UpdateState,
      window, flusher, files, bounds
<1>9. NothingForgotten'
  BY ItemsAssumption, ProcsAssumption, FilesAssumption
  DEF IInv, TypeOK, Savers, Flushers, ConfType, RtType, LockInv, FlushLockInv,
      CloneInv, Preserved, FreshInv, FreshItem, UsedInv, ShotInv, DiskInv,
      CommittedIsOnDisk, NothingForgotten, Owed, SkipsOnlyWhatIsWritten,
      UpdateState, window, flusher, files, bounds
<1>10. FlushLockInv' /\ KeyInv' /\ SkipsOnlyWhatIsWritten'
  BY DEF IInv, FlushLockInv, KeyInv, SkipsOnlyWhatIsWritten, UpdateState,
      window, flusher, files, bounds
<1>. QED BY <1>1, <1>2, <1>3, <1>4, <1>5, <1>6, <1>7, <1>8, <1>9, <1>10 DEF IInv

\* The mark takes over from its author.
LEMMA MarkStep ==
    ASSUME IInv, NEW w \in Writers, Mark(w)
    PROVE  IInv'
<1>1. TypeOK'
  BY ItemsAssumption, BoundsAssumption
  DEF IInv, TypeOK, ConfType, RtType, Savers, Flushers, Empty, AllZero,
      LockInv, DiskInv, CloneInv, Preserved, Mark, memory, flusher, files,
      bounds
<1>2. LockInv'
  BY ProcsAssumption
  DEF IInv, TypeOK, Savers, LockInv, Mark, memory, flusher, files, bounds
<1>3. FlushLockInv'
  BY ProcsAssumption
  DEF IInv, TypeOK, Savers, Flushers, LockInv, FlushLockInv, Mark, memory,
      flusher, files, bounds
<1>4. DiskInv'
  BY ProcsAssumption
  DEF IInv, TypeOK, Savers, ConfType, Empty, AllZero, LockInv, DiskInv,
      CommittedIsOnDisk, Mark, memory, flusher, files, bounds
<1>5. CloneInv'
  BY ItemsAssumption, ProcsAssumption, FilesAssumption
  DEF IInv, TypeOK, Savers, Flushers, ConfType, RtType, Empty, AllZero,
      LockInv, FlushLockInv, CloneInv, Preserved, DiskInv, Mark, memory,
      flusher, files, bounds
<1>6. FreshInv'
  BY ItemsAssumption, ProcsAssumption, FilesAssumption
  DEF IInv, TypeOK, Savers, Flushers, ConfType, RtType, Empty, AllZero,
      LockInv, FlushLockInv, FreshInv, FreshItem, UsedInv, CloneInv,
      Preserved, DiskInv, Mark, memory, flusher, files, bounds
<1>7. UsedInv'
  BY ProcsAssumption
  DEF IInv, TypeOK, Savers, ConfType, Empty, LockInv, UsedInv, Mark, memory,
      flusher, files, bounds
<1>8. ShotInv'
  BY ItemsAssumption, ProcsAssumption
  DEF IInv, TypeOK, Savers, Flushers, ConfType, RtType, Empty, LockInv,
      FlushLockInv, CloneInv, Preserved, FreshInv, FreshItem, UsedInv,
      ShotInv, DiskInv, CommittedIsOnDisk, Mark, memory, flusher, files,
      bounds
<1>9. CommittedIsOnDisk'
  BY ProcsAssumption
  DEF IInv, TypeOK, Savers, LockInv, DiskInv, CommittedIsOnDisk, Mark, memory,
      flusher, files, bounds
<1>10. NothingForgotten'
  BY ItemsAssumption, ProcsAssumption, FilesAssumption
  DEF IInv, TypeOK, Savers, Flushers, ConfType, RtType, LockInv, FlushLockInv,
      CloneInv, Preserved, FreshInv, FreshItem, UsedInv, ShotInv, DiskInv,
      CommittedIsOnDisk, NothingForgotten, Owed, SkipsOnlyWhatIsWritten, Mark,
      memory, flusher, files, bounds
<1>11. KeyInv' /\ SkipsOnlyWhatIsWritten'
  BY DEF IInv, KeyInv, SkipsOnlyWhatIsWritten, Mark, memory, flusher, files,
      bounds
<1>. QED BY <1>1, <1>2, <1>3, <1>4, <1>5, <1>6, <1>7, <1>8, <1>9, <1>10, <1>11 DEF IInv

\* A callback starts.
LEMMA TimerFiresStep ==
    ASSUME IInv, NEW t \in Timers, TimerFires(t)
    PROVE  IInv'
<1>1. TypeOK'
  <2>1. dirty' \in BOOLEAN /\ timer' \in BOOLEAN /\ closed' \in BOOLEAN
    BY Zenon
    DEF IInv, TypeOK, TimerFires, memory, files, bounds
  <2>. QED
    BY <2>1, ItemsAssumption, BoundsAssumption
    DEF IInv, TypeOK, ConfType, RtType, Savers, Flushers, Empty, AllZero,
        LockInv, DiskInv, CloneInv, Preserved, TimerFires, memory, files,
        bounds
<1>2. FlushLockInv'
  <2>1. t \in Flushers
    BY DEF Flushers
  <2>. QED
    BY <2>1, ProcsAssumption
    DEF IInv, TypeOK, Savers, Flushers, LockInv, FlushLockInv, TimerFires,
        memory, files, bounds
<1>3. ShotInv'
  BY ItemsAssumption, ProcsAssumption
  DEF IInv, TypeOK, Savers, Flushers, ConfType, RtType, Empty, LockInv,
      FlushLockInv, CloneInv, Preserved, FreshInv, FreshItem, UsedInv,
      ShotInv, DiskInv, CommittedIsOnDisk, TimerFires, memory, files, bounds
<1>4. NothingForgotten'
  BY ItemsAssumption, ProcsAssumption, FilesAssumption
  DEF IInv, TypeOK, Savers, Flushers, ConfType, RtType, LockInv, FlushLockInv,
      CloneInv, Preserved, FreshInv, FreshItem, UsedInv, ShotInv, DiskInv,
      CommittedIsOnDisk, NothingForgotten, Owed, SkipsOnlyWhatIsWritten,
      TimerFires, memory, files, bounds
<1>5. LockInv' /\ KeyInv' /\ DiskInv' /\ CloneInv' /\ FreshInv' /\ UsedInv' /\
    CommittedIsOnDisk' /\ SkipsOnlyWhatIsWritten'
  BY DEF IInv, LockInv, KeyInv, DiskInv, CloneInv, Preserved, FreshInv,
      FreshItem, UsedInv, CommittedIsOnDisk, SkipsOnlyWhatIsWritten,
      TimerFires, memory, files, bounds
<1>. QED BY <1>1, <1>2, <1>3, <1>4, <1>5 DEF IInv

\* Close starts its own flush.
LEMMA CloseStep ==
    ASSUME IInv, Close
    PROVE  IInv'
<1>1. TypeOK'
  <2>1. dirty' \in BOOLEAN /\ timer' \in BOOLEAN /\ closed' \in BOOLEAN
    BY Zenon
    DEF IInv, TypeOK, Close, memory, files, bounds
  <2>. QED
    BY <2>1, ItemsAssumption, BoundsAssumption
    DEF IInv, TypeOK, ConfType, RtType, Savers, Flushers, Empty, AllZero,
        LockInv, DiskInv, CloneInv, Preserved, Close, memory, files, bounds
<1>2. FlushLockInv'
  BY ProcsAssumption
  DEF IInv, TypeOK, Savers, Flushers, LockInv, FlushLockInv, Close, memory,
      files, bounds
<1>3. ShotInv'
  BY ItemsAssumption, ProcsAssumption
  DEF IInv, TypeOK, Savers, Flushers, ConfType, RtType, Empty, LockInv,
      FlushLockInv, CloneInv, Preserved, FreshInv, FreshItem, UsedInv,
      ShotInv, DiskInv, CommittedIsOnDisk, Close, memory, files, bounds
<1>4. NothingForgotten'
  BY ItemsAssumption, ProcsAssumption, FilesAssumption
  DEF IInv, TypeOK, Savers, Flushers, ConfType, RtType, LockInv, FlushLockInv,
      CloneInv, Preserved, FreshInv, FreshItem, UsedInv, ShotInv, DiskInv,
      CommittedIsOnDisk, NothingForgotten, Owed, SkipsOnlyWhatIsWritten,
      Close, memory, files, bounds
<1>5. LockInv' /\ KeyInv' /\ DiskInv' /\ CloneInv' /\ FreshInv' /\ UsedInv' /\
    CommittedIsOnDisk' /\ SkipsOnlyWhatIsWritten'
  BY DEF IInv, LockInv, KeyInv, DiskInv, CloneInv, Preserved, FreshInv,
      FreshItem, UsedInv, CommittedIsOnDisk, SkipsOnlyWhatIsWritten, Close,
      memory, files, bounds
<1>. QED BY <1>1, <1>2, <1>3, <1>4, <1>5 DEF IInv

\* The mark becomes the debt of the goroutine that took it.
LEMMA FlushTakeStep ==
    ASSUME IInv, NEW f \in Flushers, FlushTake(f)
    PROVE  IInv'
<1>1. TypeOK'
  <2>1. dirty' \in BOOLEAN /\ timer' \in BOOLEAN /\ closed' \in BOOLEAN
    BY Zenon
    DEF IInv, TypeOK, FlushTake, memory, files, bounds
  <2>. QED
    BY <2>1, ItemsAssumption, BoundsAssumption
    DEF IInv, TypeOK, ConfType, RtType, Savers, Flushers, Empty, AllZero,
        LockInv, DiskInv, CloneInv, Preserved, FlushTake, memory, files,
        bounds
<1>2. FlushLockInv'
  BY ProcsAssumption
  DEF IInv, TypeOK, Savers, Flushers, LockInv, FlushLockInv, FlushTake,
      memory, files, bounds
<1>3. ShotInv'
  BY ItemsAssumption, ProcsAssumption
  DEF IInv, TypeOK, Savers, Flushers, ConfType, RtType, Empty, LockInv,
      FlushLockInv, CloneInv, Preserved, FreshInv, FreshItem, UsedInv,
      ShotInv, DiskInv, CommittedIsOnDisk, FlushTake, memory, files, bounds
<1>4. NothingForgotten'
  BY ItemsAssumption, ProcsAssumption, FilesAssumption
  DEF IInv, TypeOK, Savers, Flushers, ConfType, RtType, LockInv, FlushLockInv,
      CloneInv, Preserved, FreshInv, FreshItem, UsedInv, ShotInv, DiskInv,
      CommittedIsOnDisk, NothingForgotten, Owed, SkipsOnlyWhatIsWritten,
      FlushTake, memory, files, bounds
<1>5. LockInv' /\ KeyInv' /\ DiskInv' /\ CloneInv' /\ FreshInv' /\ UsedInv' /\
    CommittedIsOnDisk' /\ SkipsOnlyWhatIsWritten'
  BY DEF IInv, LockInv, KeyInv, DiskInv, CloneInv, Preserved, FreshInv,
      FreshItem, UsedInv, CommittedIsOnDisk, SkipsOnlyWhatIsWritten,
      FlushTake, memory, files, bounds
<1>. QED BY <1>1, <1>2, <1>3, <1>4, <1>5 DEF IInv

\* What is about to be written is current, or is already written.
LEMMA FlushShotStep ==
    ASSUME IInv, NEW f \in Flushers, FlushShot(f)
    PROVE  IInv'
<1>1. TypeOK'
  BY ItemsAssumption, BoundsAssumption
  DEF IInv, TypeOK, ConfType, RtType, Savers, Flushers, Empty, AllZero,
      LockInv, DiskInv, CloneInv, Preserved, FlushShot, memory, window, files,
      bounds
<1>2. FlushLockInv'
  BY ProcsAssumption
  DEF IInv, TypeOK, Savers, Flushers, LockInv, FlushLockInv, FlushShot,
      memory, window, files, bounds
<1>3. FreshInv'
  BY ItemsAssumption, ProcsAssumption, FilesAssumption
  DEF IInv, TypeOK, Savers, Flushers, ConfType, RtType, Empty, AllZero,
      LockInv, FlushLockInv, FreshInv, FreshItem, UsedInv, CloneInv,
      Preserved, DiskInv, FlushShot, memory, window, files, bounds
<1>4. ShotInv'
  BY ItemsAssumption, ProcsAssumption
  DEF IInv, TypeOK, Savers, Flushers, ConfType, RtType, Empty, LockInv,
      FlushLockInv, CloneInv, Preserved, FreshInv, FreshItem, UsedInv,
      ShotInv, DiskInv, CommittedIsOnDisk, FlushShot, memory, window, files,
      bounds
<1>5. NothingForgotten'
  BY ItemsAssumption, ProcsAssumption, FilesAssumption
  DEF IInv, TypeOK, Savers, Flushers, ConfType, RtType, LockInv, FlushLockInv,
      CloneInv, Preserved, FreshInv, FreshItem, UsedInv, ShotInv, DiskInv,
      CommittedIsOnDisk, NothingForgotten, Owed, SkipsOnlyWhatIsWritten,
      FlushShot, memory, window, files, bounds
<1>6. LockInv' /\ KeyInv' /\ DiskInv' /\ CloneInv' /\ UsedInv' /\ CommittedIsOnDisk' /\
    SkipsOnlyWhatIsWritten'
  BY DEF IInv, LockInv, KeyInv, DiskInv, CloneInv, Preserved, UsedInv,
      CommittedIsOnDisk, SkipsOnlyWhatIsWritten, FlushShot, memory, window,
      files, bounds
<1>. QED BY <1>1, <1>2, <1>3, <1>4, <1>5, <1>6 DEF IInv

\* state.json receives what the flush had read: a report made since then has its
\* own mark.
LEMMA FlushWriteStep ==
    ASSUME IInv, NEW f \in Flushers, FlushWrite(f)
    PROVE  IInv'
<1>1. TypeOK'
  BY ItemsAssumption, BoundsAssumption
  DEF IInv, TypeOK, ConfType, RtType, Savers, Flushers, Empty, AllZero,
      LockInv, DiskInv, CloneInv, Preserved, FlushWrite, Fails, Succeeds,
      memory, window
<1>2. FlushLockInv'
  BY ProcsAssumption
  DEF IInv, TypeOK, Savers, Flushers, LockInv, FlushLockInv, FlushWrite,
      Fails, Succeeds, memory, window
<1>3. CloneInv'
  BY ItemsAssumption, ProcsAssumption, FilesAssumption
  DEF IInv, TypeOK, Savers, Flushers, ConfType, RtType, Empty, AllZero,
      LockInv, FlushLockInv, CloneInv, Preserved, DiskInv, FlushWrite, Fails,
      Succeeds, memory, window
<1>4. FreshInv'
  BY ItemsAssumption, ProcsAssumption, FilesAssumption
  DEF IInv, TypeOK, Savers, Flushers, ConfType, RtType, Empty, AllZero,
      LockInv, FlushLockInv, FreshInv, FreshItem, UsedInv, CloneInv,
      Preserved, DiskInv, FlushWrite, Fails, Succeeds, memory, window
<1>5. ShotInv'
  BY ItemsAssumption, ProcsAssumption
  DEF IInv, TypeOK, Savers, Flushers, ConfType, RtType, Empty, LockInv,
      FlushLockInv, CloneInv, Preserved, FreshInv, FreshItem, UsedInv,
      ShotInv, DiskInv, CommittedIsOnDisk, FlushWrite, Fails, Succeeds,
      memory, window
<1>6. NothingForgotten'
  BY ItemsAssumption, ProcsAssumption, FilesAssumption
  DEF IInv, TypeOK, Savers, Flushers, ConfType, RtType, LockInv, FlushLockInv,
      CloneInv, Preserved, FreshInv, FreshItem, UsedInv, ShotInv, DiskInv,
      CommittedIsOnDisk, NothingForgotten, Owed, SkipsOnlyWhatIsWritten,
      FlushWrite, Fails, Succeeds, memory, window
<1>7. SkipsOnlyWhatIsWritten'
  BY FilesAssumption
  DEF IInv, TypeOK, Savers, Flushers, RtType, LockInv, FlushLockInv,
      SkipsOnlyWhatIsWritten, FlushWrite, Fails, Succeeds, memory, window
<1>8. LockInv' /\ KeyInv' /\ DiskInv' /\ UsedInv' /\ CommittedIsOnDisk'
  BY DEF IInv, LockInv, KeyInv, DiskInv, UsedInv, CommittedIsOnDisk,
      FlushWrite, memory, window
<1>. QED BY <1>1, <1>2, <1>3, <1>4, <1>5, <1>6, <1>7, <1>8 DEF IInv

\* The debt of a failed flush becomes a mark again.
LEMMA FlushRemarkStep ==
    ASSUME IInv, NEW f \in Flushers, FlushRemark(f)
    PROVE  IInv'
<1>1. TypeOK'
  BY ItemsAssumption, BoundsAssumption
  DEF IInv, TypeOK, ConfType, RtType, Savers, Flushers, Empty, AllZero,
      LockInv, DiskInv, CloneInv, Preserved, FlushRemark, memory, files,
      bounds
<1>2. FlushLockInv'
  BY ProcsAssumption
  DEF IInv, TypeOK, Savers, Flushers, LockInv, FlushLockInv, FlushRemark,
      memory, files, bounds
<1>3. ShotInv'
  BY ItemsAssumption, ProcsAssumption
  DEF IInv, TypeOK, Savers, Flushers, ConfType, RtType, Empty, LockInv,
      FlushLockInv, CloneInv, Preserved, FreshInv, FreshItem, UsedInv,
      ShotInv, DiskInv, CommittedIsOnDisk, FlushRemark, memory, files, bounds
<1>4. NothingForgotten'
  BY ItemsAssumption, ProcsAssumption, FilesAssumption
  DEF IInv, TypeOK, Savers, Flushers, ConfType, RtType, LockInv, FlushLockInv,
      CloneInv, Preserved, FreshInv, FreshItem, UsedInv, ShotInv, DiskInv,
      CommittedIsOnDisk, NothingForgotten, Owed, SkipsOnlyWhatIsWritten,
      FlushRemark, memory, files, bounds
<1>5. LockInv' /\ KeyInv' /\ DiskInv' /\ CloneInv' /\ FreshInv' /\ UsedInv' /\
    CommittedIsOnDisk' /\ SkipsOnlyWhatIsWritten'
  BY DEF IInv, LockInv, KeyInv, DiskInv, CloneInv, Preserved, FreshInv,
      FreshItem, UsedInv, CommittedIsOnDisk, SkipsOnlyWhatIsWritten,
      FlushRemark, memory, files, bounds
<1>. QED BY <1>1, <1>2, <1>3, <1>4, <1>5 DEF IInv

\* The memory is what config.json says.
LEMMA LoadConfigStep ==
    ASSUME IInv, LoadConfig
    PROVE  IInv'
<1>1. TypeOK'
  <2>1. [conf |-> Empty, rt |-> AllZero, replace |-> FALSE]
          \in [conf : ConfType, rt : RtType, replace : BOOLEAN]
    BY ItemsAssumption DEF Empty, AllZero, ConfType, RtType
  <2>2. next' \in [conf : ConfType, rt : RtType, replace : BOOLEAN]
    BY <2>1, Zenon DEF IInv, TypeOK, LoadConfig
  <2>. QED
    BY <2>2, ItemsAssumption, BoundsAssumption
    DEF IInv, TypeOK, ConfType, RtType, Savers, Flushers, Empty, AllZero,
        LockInv, DiskInv, CloneInv, Preserved, LoadConfig, memory, window,
        flusher, files, bounds
<1>2. LockInv'
  BY ProcsAssumption
  DEF IInv, TypeOK, Savers, LockInv, LoadConfig, memory, window, flusher,
      files, bounds
<1>3. FlushLockInv'
  BY ProcsAssumption
  DEF IInv, TypeOK, Savers, Flushers, LockInv, FlushLockInv, LoadConfig,
      memory, window, flusher, files, bounds
<1>4. KeyInv'
  BY DEF IInv, TypeOK, KeyInv, LoadConfig, memory, window, flusher, files,
      bounds
<1>5. DiskInv'
  BY ProcsAssumption
  DEF IInv, TypeOK, Savers, ConfType, Empty, AllZero, LockInv, DiskInv,
      CommittedIsOnDisk, LoadConfig, memory, window, flusher, files, bounds
<1>6. CloneInv'
  BY ItemsAssumption, ProcsAssumption, FilesAssumption
  DEF IInv, TypeOK, Savers, Flushers, ConfType, RtType, Empty, AllZero,
      LockInv, FlushLockInv, CloneInv, Preserved, DiskInv, LoadConfig, memory,
      window, flusher, files, bounds
<1>7. FreshInv'
  BY ItemsAssumption, ProcsAssumption, FilesAssumption
  DEF IInv, TypeOK, Savers, Flushers, ConfType, RtType, Empty, AllZero,
      LockInv, FlushLockInv, FreshInv, FreshItem, UsedInv, CloneInv,
      Preserved, DiskInv, LoadConfig, memory, window, flusher, files, bounds
<1>8. UsedInv'
  BY ProcsAssumption
  DEF IInv, TypeOK, Savers, ConfType, Empty, LockInv, UsedInv, LoadConfig,
      memory, window, flusher, files, bounds
<1>9. ShotInv'
  BY ItemsAssumption, ProcsAssumption
  DEF IInv, TypeOK, Savers, Flushers, ConfType, RtType, Empty, LockInv,
      FlushLockInv, CloneInv, Preserved, FreshInv, FreshItem, UsedInv,
      ShotInv, DiskInv, CommittedIsOnDisk, LoadConfig, memory, window,
      flusher, files, bounds
<1>10. CommittedIsOnDisk'
  BY ProcsAssumption
  DEF IInv, TypeOK, Savers, LockInv, DiskInv, CommittedIsOnDisk, LoadConfig,
      memory, window, flusher, files, bounds
<1>11. NothingForgotten'
  BY ItemsAssumption, ProcsAssumption, FilesAssumption
  DEF IInv, TypeOK, Savers, Flushers, ConfType, RtType, LockInv, FlushLockInv,
      CloneInv, Preserved, FreshInv, FreshItem, UsedInv, ShotInv, DiskInv,
      CommittedIsOnDisk, NothingForgotten, Owed, SkipsOnlyWhatIsWritten,
      LoadConfig, memory, window, flusher, files, bounds
<1>12. SkipsOnlyWhatIsWritten'
  BY DEF IInv, SkipsOnlyWhatIsWritten, LoadConfig, memory, window, flusher,
      files, bounds
<1>. QED BY <1>1, <1>2, <1>3, <1>4, <1>5, <1>6, <1>7, <1>8, <1>9, <1>10,
    <1>11, <1>12 DEF IInv

\* The runtime state is what state.json says.
LEMMA LoadStateStep ==
    ASSUME IInv, LoadState
    PROVE  IInv'
<1>1. TypeOK'
  BY ItemsAssumption, BoundsAssumption
  DEF IInv, TypeOK, ConfType, RtType, Savers, Flushers, Empty, AllZero,
      LockInv, DiskInv, CloneInv, Preserved, LoadState, Applied, Fails,
      Succeeds, window, flusher
<1>2. LockInv'
  BY ProcsAssumption
  DEF IInv, TypeOK, Savers, LockInv, LoadState, Applied, Fails, Succeeds,
      window, flusher
<1>3. FlushLockInv'
  BY ProcsAssumption
  DEF IInv, TypeOK, Savers, Flushers, LockInv, FlushLockInv, LoadState,
      Applied, Fails, Succeeds, window, flusher
<1>4. DiskInv'
  BY ProcsAssumption
  DEF IInv, TypeOK, Savers, ConfType, Empty, AllZero, LockInv, DiskInv,
      CommittedIsOnDisk, LoadState, Applied, Fails, Succeeds, window, flusher
<1>5. CloneInv'
  BY ItemsAssumption, ProcsAssumption, FilesAssumption
  DEF IInv, TypeOK, Savers, Flushers, ConfType, RtType, Empty, AllZero,
      LockInv, FlushLockInv, CloneInv, Preserved, DiskInv, LoadState, Applied,
      Fails, Succeeds, window, flusher
<1>6. FreshInv'
  BY ItemsAssumption, ProcsAssumption, FilesAssumption
  DEF IInv, TypeOK, Savers, Flushers, ConfType, RtType, Empty, AllZero,
      LockInv, FlushLockInv, FreshInv, FreshItem, UsedInv, CloneInv,
      Preserved, DiskInv, LoadState, Applied, Fails, Succeeds, window, flusher
<1>7. UsedInv'
  BY ProcsAssumption
  DEF IInv, TypeOK, Savers, ConfType, Empty, LockInv, UsedInv, LoadState,
      Applied, Fails, Succeeds, window, flusher
<1>8. ShotInv'
  BY ItemsAssumption, ProcsAssumption
  DEF IInv, TypeOK, Savers, Flushers, ConfType, RtType, Empty, LockInv,
      FlushLockInv, CloneInv, Preserved, FreshInv, FreshItem, UsedInv,
      ShotInv, DiskInv, CommittedIsOnDisk, LoadState, Applied, Fails,
      Succeeds, window, flusher
<1>9. CommittedIsOnDisk'
  BY ProcsAssumption
  DEF IInv, TypeOK, Savers, LockInv, DiskInv, CommittedIsOnDisk, LoadState,
      Applied, Fails, Succeeds, window, flusher
<1>10. NothingForgotten'
  BY ItemsAssumption, ProcsAssumption, FilesAssumption
  DEF IInv, TypeOK, Savers, Flushers, ConfType, RtType, LockInv, FlushLockInv,
      CloneInv, Preserved, FreshInv, FreshItem, UsedInv, ShotInv, DiskInv,
      CommittedIsOnDisk, NothingForgotten, Owed, SkipsOnlyWhatIsWritten,
      LoadState, Applied, Fails, Succeeds, window, flusher
<1>11. SkipsOnlyWhatIsWritten'
  BY FilesAssumption
  DEF IInv, TypeOK, Savers, Flushers, RtType, LockInv, FlushLockInv,
      SkipsOnlyWhatIsWritten, LoadState, Applied, Fails, Succeeds, window,
      flusher
<1>12. KeyInv'
  BY DEF IInv, KeyInv, LoadState, window, flusher
<1>. QED BY <1>1, <1>2, <1>3, <1>4, <1>5, <1>6, <1>7, <1>8, <1>9, <1>10,
    <1>11, <1>12 DEF IInv

\* A process that starts again owes nothing.
LEMMA CrashStep ==
    ASSUME IInv, Crash
    PROVE  IInv'
<1>1. TypeOK'
  <2>1. dirty' \in BOOLEAN /\ timer' \in BOOLEAN /\ closed' \in BOOLEAN
    BY Zenon
    DEF IInv, TypeOK, Crash, MemoryLost, files
  <2>. QED
    BY <2>1, ItemsAssumption, BoundsAssumption
    DEF IInv, TypeOK, ConfType, RtType, Savers, Flushers, Empty, AllZero,
        LockInv, DiskInv, CloneInv, Preserved, Crash, MemoryLost, files
<1>2. LockInv'
  BY ProcsAssumption
  DEF IInv, TypeOK, Savers, LockInv, Crash, MemoryLost, files
<1>3. FlushLockInv'
  BY ProcsAssumption
  DEF IInv, TypeOK, Savers, Flushers, LockInv, FlushLockInv, Crash,
      MemoryLost, files
<1>4. KeyInv'
  BY DEF IInv, TypeOK, KeyInv, Crash, MemoryLost, files
<1>5. DiskInv'
  BY ProcsAssumption
  DEF IInv, TypeOK, Savers, ConfType, Empty, AllZero, LockInv, DiskInv,
      CommittedIsOnDisk, Crash, MemoryLost, files
<1>6. CloneInv'
  BY ItemsAssumption, ProcsAssumption, FilesAssumption
  DEF IInv, TypeOK, Savers, Flushers, ConfType, RtType, Empty, AllZero,
      LockInv, FlushLockInv, CloneInv, Preserved, DiskInv, Crash, MemoryLost,
      files
<1>7. FreshInv'
  BY ItemsAssumption, ProcsAssumption, FilesAssumption
  DEF IInv, TypeOK, Savers, Flushers, ConfType, RtType, Empty, AllZero,
      LockInv, FlushLockInv, FreshInv, FreshItem, UsedInv, CloneInv,
      Preserved, DiskInv, Crash, MemoryLost, files
<1>8. UsedInv'
  BY ProcsAssumption
  DEF IInv, TypeOK, Savers, ConfType, Empty, LockInv, UsedInv, Crash,
      MemoryLost, files
<1>9. ShotInv'
  BY ItemsAssumption, ProcsAssumption
  DEF IInv, TypeOK, Savers, Flushers, ConfType, RtType, Empty, LockInv,
      FlushLockInv, CloneInv, Preserved, FreshInv, FreshItem, UsedInv,
      ShotInv, DiskInv, CommittedIsOnDisk, Crash, MemoryLost, files
<1>10. CommittedIsOnDisk'
  BY ProcsAssumption
  DEF IInv, TypeOK, Savers, LockInv, DiskInv, CommittedIsOnDisk, Crash,
      MemoryLost, files
<1>11. NothingForgotten'
  BY ItemsAssumption, ProcsAssumption, FilesAssumption
  DEF IInv, TypeOK, Savers, Flushers, ConfType, RtType, LockInv, FlushLockInv,
      CloneInv, Preserved, FreshInv, FreshItem, UsedInv, ShotInv, DiskInv,
      CommittedIsOnDisk, NothingForgotten, Owed, SkipsOnlyWhatIsWritten,
      Crash, MemoryLost, files
<1>12. SkipsOnlyWhatIsWritten'
  BY FilesAssumption
  DEF IInv, TypeOK, Savers, Flushers, RtType, LockInv, FlushLockInv,
      SkipsOnlyWhatIsWritten, Crash, MemoryLost, files
<1>. QED BY <1>1, <1>2, <1>3, <1>4, <1>5, <1>6, <1>7, <1>8, <1>9, <1>10,
    <1>11, <1>12 DEF IInv

\* The same when state.json is unreadable.
LEMMA PowerLossStep ==
    ASSUME IInv, PowerLoss
    PROVE  IInv'
<1>1. TypeOK'
  <2>1. dirty' \in BOOLEAN /\ timer' \in BOOLEAN /\ closed' \in BOOLEAN
    BY Zenon
    DEF IInv, TypeOK, PowerLoss, MemoryLost, files
  <2>. QED
    BY <2>1, ItemsAssumption, BoundsAssumption
    DEF IInv, TypeOK, ConfType, RtType, Savers, Flushers, Empty, AllZero,
        LockInv, DiskInv, CloneInv, Preserved, PowerLoss, MemoryLost, files
<1>2. LockInv'
  BY ProcsAssumption
  DEF IInv, TypeOK, Savers, LockInv, PowerLoss, MemoryLost, files
<1>3. FlushLockInv'
  BY ProcsAssumption
  DEF IInv, TypeOK, Savers, Flushers, LockInv, FlushLockInv, PowerLoss,
      MemoryLost, files
<1>4. KeyInv'
  BY DEF IInv, TypeOK, KeyInv, PowerLoss, MemoryLost, files
<1>5. DiskInv'
  BY ProcsAssumption
  DEF IInv, TypeOK, Savers, ConfType, Empty, AllZero, LockInv, DiskInv,
      CommittedIsOnDisk, PowerLoss, MemoryLost, files
<1>6. CloneInv'
  BY ItemsAssumption, ProcsAssumption, FilesAssumption
  DEF IInv, TypeOK, Savers, Flushers, ConfType, RtType, Empty, AllZero,
      LockInv, FlushLockInv, CloneInv, Preserved, DiskInv, PowerLoss,
      MemoryLost, files
<1>7. FreshInv'
  BY ItemsAssumption, ProcsAssumption, FilesAssumption
  DEF IInv, TypeOK, Savers, Flushers, ConfType, RtType, Empty, AllZero,
      LockInv, FlushLockInv, FreshInv, FreshItem, UsedInv, CloneInv,
      Preserved, DiskInv, PowerLoss, MemoryLost, files
<1>8. UsedInv'
  BY ProcsAssumption
  DEF IInv, TypeOK, Savers, ConfType, Empty, LockInv, UsedInv, PowerLoss,
      MemoryLost, files
<1>9. ShotInv'
  BY ItemsAssumption, ProcsAssumption
  DEF IInv, TypeOK, Savers, Flushers, ConfType, RtType, Empty, LockInv,
      FlushLockInv, CloneInv, Preserved, FreshInv, FreshItem, UsedInv,
      ShotInv, DiskInv, CommittedIsOnDisk, PowerLoss, MemoryLost, files
<1>10. CommittedIsOnDisk'
  BY ProcsAssumption
  DEF IInv, TypeOK, Savers, LockInv, DiskInv, CommittedIsOnDisk, PowerLoss,
      MemoryLost, files
<1>11. NothingForgotten'
  BY ItemsAssumption, ProcsAssumption, FilesAssumption
  DEF IInv, TypeOK, Savers, Flushers, ConfType, RtType, LockInv, FlushLockInv,
      CloneInv, Preserved, FreshInv, FreshItem, UsedInv, ShotInv, DiskInv,
      CommittedIsOnDisk, NothingForgotten, Owed, SkipsOnlyWhatIsWritten,
      PowerLoss, MemoryLost, files
<1>12. SkipsOnlyWhatIsWritten'
  BY FilesAssumption
  DEF IInv, TypeOK, Savers, Flushers, RtType, LockInv, FlushLockInv,
      SkipsOnlyWhatIsWritten, PowerLoss, MemoryLost, files
<1>. QED BY <1>1, <1>2, <1>3, <1>4, <1>5, <1>6, <1>7, <1>8, <1>9, <1>10,
    <1>11, <1>12 DEF IInv

-----------------------------------------------------------------------------
LEMMA InitIInv == Init => IInv
<1>. SUFFICES ASSUME Init PROVE IInv
  OBVIOUS
<1>1. Empty \in ConfType /\ AllZero \in RtType
  BY ItemsAssumption DEF Empty, AllZero, ConfType, RtType
<1>2. /\ config \in [exists : BOOLEAN, conf : ConfType, rt : RtType,
                    key : Keys \cup {NoKey},
                    owes : {"nothing", "jwt", "migration"}]
      /\ config.owes # "nothing" => config.exists
      /\ \A i \in Ids : config.conf[i] = NoItem => config.rt[i] = Zero
      /\ config.key = NoKey
  <2>1. CASE config = Fresh
    BY <1>1, <2>1 DEF Fresh, AllZero
  <2>2. ASSUME NEW c \in ConfType, NEW r \in RtType,
               NEW o \in {"nothing", "jwt", "migration"}, r = Applied(c, r),
               config = [exists |-> TRUE, conf |-> c, rt |-> r, key |-> NoKey,
                         owes |-> o]
        PROVE  /\ config \in [exists : BOOLEAN, conf : ConfType, rt : RtType,
                              key : Keys \cup {NoKey},
                              owes : {"nothing", "jwt", "migration"}]
               /\ config.owes # "nothing" => config.exists
               /\ \A i \in Ids : config.conf[i] = NoItem => config.rt[i] = Zero
               /\ config.key = NoKey
    <3>1. \A i \in Ids : c[i] = NoItem => r[i] = Zero
      BY <2>2 DEF Applied
    <3>. QED BY <2>2, <3>1
  <2>3. config = Fresh \/ \E c \in Legacy : config = c /\ c.rt = Applied(c.conf, c.rt)
    BY DEF Init
  <2>. QED BY <2>1, <2>2, <2>3 DEF Legacy
<1>3. TypeOK
  <2>1. dirty \in BOOLEAN /\ timer \in BOOLEAN /\ closed \in BOOLEAN
    BY Zenon DEF Init
  <2>2. next \in [conf : ConfType, rt : RtType, replace : BOOLEAN]
    BY <1>1 DEF Init
  <2>. QED
    BY <1>1, <1>2, <2>1, <2>2, ItemsAssumption, BoundsAssumption
    DEF Init, TypeOK, Savers, Flushers, Empty, AllZero
<1>4. LockInv /\ FlushLockInv /\ KeyInv
  BY <1>2, ProcsAssumption
  DEF Init, LockInv, FlushLockInv, KeyInv, Savers, Flushers
<1>5. DiskInv /\ CloneInv /\ ShotInv
  BY <1>2 DEF Init, DiskInv, CloneInv, ShotInv, Savers, Flushers
<1>6. FreshInv /\ UsedInv
  BY <1>2, FilesAssumption
  DEF Init, FreshInv, FreshItem, UsedInv, Savers, Empty, AllZero, RtType
<1>7. CommittedIsOnDisk /\ NothingForgotten /\ SkipsOnlyWhatIsWritten
  BY FilesAssumption
  DEF Init, CommittedIsOnDisk, NothingForgotten, SkipsOnlyWhatIsWritten, RtType
<1>. QED BY <1>3, <1>4, <1>5, <1>6, <1>7 DEF IInv

LEMMA StutterStep == IInv /\ UNCHANGED vars => IInv'
BY DEF IInv, TypeOK, LockInv, FlushLockInv, KeyInv, DiskInv, CloneInv,
       Preserved, FreshInv, FreshItem, UsedInv, ShotInv, CommittedIsOnDisk,
       NothingForgotten, Owed, SkipsOnlyWhatIsWritten, ConfType, RtType, vars

LEMMA NextIInv == IInv /\ [Next]_vars => IInv'
<1>. SUFFICES ASSUME IInv, [Next]_vars PROVE IInv'
  OBVIOUS
<1>1. CASE \E w \in Writers : \/ Update(w) \/ Replace(w)
                             \/ UpdateState(w) \/ Mark(w)
  BY <1>1, UpdateStep, ReplaceStep, UpdateStateStep, MarkStep
<1>2. CASE Save
  BY <1>2, EnsureKeyStep, WriteConfigStep, CommitStep DEF Save
<1>3. CASE Flush
  BY <1>3, FlushTakeStep, FlushShotStep, FlushWriteStep, FlushRemarkStep
  DEF Flush
<1>4. CASE \E t \in Timers : TimerFires(t)
  BY <1>4, TimerFiresStep
<1>5. CASE Close
  BY <1>5, CloseStep
<1>6. CASE LoadConfig \/ LoadState
  BY <1>6, LoadConfigStep, LoadStateStep
<1>7. CASE Crash \/ PowerLoss
  BY <1>7, CrashStep, PowerLossStep
<1>8. CASE UNCHANGED vars
  BY <1>8, StutterStep
<1>. QED BY <1>1, <1>2, <1>3, <1>4, <1>5, <1>6, <1>7, <1>8 DEF Next

LEMMA Inductive == Spec => []IInv
<1>. QED BY InitIInv, NextIInv, PTL DEF Spec

-----------------------------------------------------------------------------
\* Every variable keeps its type, and an item that does not exist has no
\* runtime state.
THEOREM TypeCorrect == Spec => []TypeOK
<1>1. IInv => TypeOK
  BY DEF IInv
<1>. QED BY <1>1, Inductive, PTL

\* Whatever the interleaving of saves, failures, kills and power losses, the
\* key of a sealed config.json is on the disk.
THEOREM KeyBeforeConfig == Spec => []SecretsReadable
<1>1. IInv => SecretsReadable
  BY DEF IInv, KeyInv, SecretsReadable
<1>. QED BY <1>1, Inductive, PTL

\* Outside a save, memory and config.json hold the same configuration.
THEOREM NoHalfCommit == Spec => []CommittedIsOnDisk
<1>1. IInv => CommittedIsOnDisk
  BY DEF IInv
<1>. QED BY <1>1, Inductive, PTL

\* A runtime state that state.json does not have is always owed by somebody:
\* the mark, its author, or a flush in progress.
THEOREM NoReportForgotten == Spec => []NothingForgotten
<1>1. IInv => NothingForgotten
  BY DEF IInv
<1>. QED BY <1>1, Inductive, PTL

\* The bytes a flush compares with are those of state.json.
THEOREM LastWrittenIsFile == Spec => []SkipsOnlyWhatIsWritten
<1>1. IInv => SkipsOnlyWhatIsWritten
  BY DEF IInv
<1>. QED BY <1>1, Inductive, PTL

\* A save of the configuration takes no report back: the runtime state of an
\* item that stays changes only in UpdateState.
THEOREM ReportsSurviveSaves == Spec => SavesKeepReports
<1>. DEFINE Kept ==
       phase = "up" /\ phase' = "up" =>
         \A i \in Ids :
            \/ memRt'[i] = memRt[i]
            \/ NoItem \in {memConf[i], memConf'[i]}
            \/ \E w \in Writers : pc[w] = "idle" /\ pc'[w] = "mark"
<1>1. IInv /\ [Next]_vars => Kept
  <2>. SUFFICES ASSUME IInv, [Next]_vars, phase = "up", phase' = "up",
                       NEW i \in Ids
                PROVE  \/ memRt'[i] = memRt[i]
                       \/ NoItem \in {memConf[i], memConf'[i]}
                       \/ \E w \in Writers : pc[w] = "idle" /\ pc'[w] = "mark"
    BY DEF Kept
  <2>1. CASE \E w \in Writers : Update(w) \/ Replace(w) \/ Mark(w)
    BY <2>1 DEF Update, Replace, Mark, memory
  <2>2. CASE \E w \in Writers : UpdateState(w)
    BY <2>2 DEF UpdateState, IInv, TypeOK, Savers
  <2>3. CASE \E s \in Savers : EnsureKey(s) \/ WriteConfig(s)
    BY <2>3 DEF EnsureKey, WriteConfig, memory
  <2>4. ASSUME NEW s \in Savers, Commit(s)
        PROVE  memRt'[i] = memRt[i] \/ NoItem \in {memConf[i], memConf'[i]}
    BY <2>4 DEF Commit, IInv, CloneInv, LockInv, Preserved, Savers
  <2>5. CASE Flush
    BY <2>5 DEF Flush, FlushTake, FlushShot, FlushWrite, FlushRemark, memory
  <2>6. CASE (\E t \in Timers : TimerFires(t)) \/ Close
    BY <2>6 DEF TimerFires, Close, memory
  <2>7. CASE LoadConfig \/ LoadState \/ Crash \/ PowerLoss
    BY <2>7 DEF LoadConfig, LoadState, Crash, PowerLoss, MemoryLost, IInv,
                LockInv
  <2>8. CASE UNCHANGED vars
    BY <2>8 DEF vars
  <2>. QED BY <2>1, <2>2, <2>3, <2>4, <2>5, <2>6, <2>7, <2>8 DEF Next, Save
<1>. QED BY <1>1, Inductive, PTL DEF Spec, SavesKeepReports, Kept

-----------------------------------------------------------------------------
(* The refinement of DurableSettings.                                       *)

\* Without config.json there are no settings, and what Load is about to save
\* first, or again, is what config.json says.
FirstInv ==
    /\ ~config.exists => config.conf = Empty
    /\ pc["load"] \in {"key", "write"} => next.conf = config.conf

DurableStep == [Durable!Next]_(Durable!durableVars)

LEMMA FirstStep == IInv /\ FirstInv /\ [Next]_vars => FirstInv'
<1> SUFFICES ASSUME IInv, FirstInv, [Next]_vars
             PROVE  FirstInv'
  OBVIOUS
<1>. USE ProcsAssumption
<1>1. CASE \E w \in Writers : Update(w) \/ Replace(w)
  BY <1>1 DEF IInv, TypeOK, Savers, LockInv, FirstInv, Update, Replace, files
<1>2. CASE \E w \in Writers : UpdateState(w) \/ Mark(w)
  BY <1>2 DEF IInv, TypeOK, Savers, LockInv, FirstInv, UpdateState, Mark, files
<1>3. CASE \E s \in Savers : EnsureKey(s)
  BY <1>3 DEF IInv, TypeOK, Savers, LockInv, FirstInv, EnsureKey, GiveUp
<1>4. CASE \E s \in Savers : WriteConfig(s)
  BY <1>4 DEF IInv, TypeOK, Savers, LockInv, FirstInv, WriteConfig, GiveUp, OnDisk
<1>5. CASE \E s \in Savers : Commit(s)
  BY <1>5 DEF IInv, TypeOK, Savers, LockInv, FirstInv, Commit, files
<1>6. CASE Flush \/ Close \/ \E t \in Timers : TimerFires(t)
  BY <1>6 DEF FirstInv, Flush, Close, TimerFires, FlushTake, FlushShot, FlushWrite,
              FlushRemark, files
<1>7. CASE LoadConfig
  BY <1>7 DEF IInv, TypeOK, Savers, FirstInv, LoadConfig, files
<1>8. CASE LoadState
  BY <1>8 DEF IInv, TypeOK, Savers, DiskInv, FirstInv, LoadState
<1>9. CASE Crash \/ PowerLoss
  BY <1>9 DEF Savers, FirstInv, Crash, PowerLoss, MemoryLost
<1>10. CASE UNCHANGED vars
  BY <1>10 DEF FirstInv, vars, files
<1>. QED BY <1>1, <1>2, <1>3, <1>4, <1>5, <1>6, <1>7, <1>8, <1>9, <1>10 DEF Next, Save

\* What is seen while the panel is down is what is kept.
LEMMA InitIsDurable == Init => Durable!Init /\ FirstInv
  BY DEF Init, FirstInv, Fresh, Legacy, ConfType, Empty, AllZero, Savers,
         Durable!Init, Durable!Settings, Durable!Nothing

\* Steps that touch neither the configuration nor what callers see of it.
LEMMA InnerSteps ==
    ASSUME UNCHANGED <<phase, memConf, memRt, config>>
    PROVE  DurableStep
  BY DEF DurableStep, Durable!durableVars

\* Load serves what is kept.
LEMMA StartsServing ==
    ASSUME phase # "up", phase' = "up", memConf' = config.conf, TypeOK',
           UNCHANGED config
    PROVE  DurableStep
<1>1. Durable!Start
  BY DEF TypeOK, RtType, Durable!Start
<1>. QED BY <1>1 DEF DurableStep, Durable!Next

\* A save is kept, or fails: then nothing changes, or Load goes on without it.
LEMMA SavingIsDurable ==
    ASSUME IInv, FirstInv, TypeOK', NEW s \in Savers, EnsureKey(s) \/ WriteConfig(s)
    PROVE  DurableStep
<1>. USE ProcsAssumption
<1>1. CASE phase' = phase /\ UNCHANGED config
  BY <1>1, InnerSteps DEF EnsureKey, WriteConfig, memory
<1>2. CASE phase' # phase
  <2>1. s = "load" /\ phase = "loading" /\ UNCHANGED <<memConf, memRt, config>>
    BY <1>2 DEF IInv, LockInv, EnsureKey, WriteConfig, GiveUp, Savers, memory
  <2>2. CASE phase' = "up"
    BY <2>1, <2>2, StartsServing DEF IInv, DiskInv, EnsureKey, WriteConfig, GiveUp
  <2>3. CASE phase' # "up"
    BY <2>1, <2>3 DEF DurableStep, Durable!durableVars
  <2>. QED BY <2>2, <2>3
<1>3. CASE phase' = phase /\ config' # config
  <2>1. /\ pc[s] = "write" /\ config' = OnDisk(next.conf, box)
        /\ UNCHANGED <<memConf, memRt>>
    BY <1>3 DEF EnsureKey, WriteConfig, memory
  <2>2. CASE s = "load"
    <3>1. phase = "loading" /\ config'.conf = config.conf
      BY <2>1, <2>2 DEF IInv, LockInv, FirstInv, OnDisk
    <3>. QED BY <1>3, <2>1, <3>1 DEF DurableStep, Durable!durableVars
  <2>3. CASE s \in Writers
    <3>1. phase = "up" /\ config.conf = memConf
      BY <2>1, <2>3 DEF IInv, LockInv, CommittedIsOnDisk, Savers
    <3>2. config'.conf = next.conf /\ next.conf \in ConfType
      BY <2>1 DEF OnDisk, IInv, TypeOK
    <3>3. Durable!Keep
      BY <1>3, <2>1, <3>1, <3>2 DEF Durable!Keep, Durable!Settings, ConfType
    <3>. QED BY <3>3 DEF DurableStep, Durable!Next
  <2>. QED BY <2>2, <2>3 DEF Savers
<1>. QED BY <1>1, <1>2, <1>3

\* What is kept is shown; a report about an item that stays is shown with it.
LEMMA CommitIsDurable ==
    ASSUME IInv, TypeOK', NEW s \in Savers, Commit(s)
    PROVE  DurableStep
<1>. USE ProcsAssumption
<1>1. config.conf = next.conf /\ UNCHANGED config /\ phase' = "up"
      /\ memConf' = next.conf /\ memRt' = next.rt
  BY DEF IInv, DiskInv, Commit, files
<1>2. CASE s = "load"
  BY <1>1, <1>2, StartsServing DEF IInv, LockInv, Commit
<1>3. CASE s \in Writers
  <2>1. phase = "up" /\ next.rt = Preserved(next.conf)
    BY <1>3 DEF IInv, LockInv, CloneInv, Commit
  <2>2. Durable!Staying(memConf, next.conf) = next.rt
    BY <2>1 DEF Durable!Staying, Preserved
  <2>3. Durable!Show
    BY <1>1, <2>1, <2>2 DEF Durable!Show, Durable!Staying
  <2>. QED BY <2>3 DEF DurableStep, Durable!Next
<1>. QED BY <1>2, <1>3 DEF Savers

LEMMA ReportIsDurable ==
    ASSUME IInv, NEW w \in Writers, UpdateState(w)
    PROVE  DurableStep
<1>1. PICK i \in Ids, r \in Rts : memConf[i] # NoItem /\ memRt' = [memRt EXCEPT ![i] = r]
  BY DEF UpdateState
<1>2. Durable!Report(i)
  BY <1>1 DEF UpdateState, files, Durable!Report
<1>. QED BY <1>2 DEF DurableStep, Durable!Next

LEMMA LoadIsDurable ==
    ASSUME IInv, TypeOK', LoadConfig \/ LoadState
    PROVE  DurableStep
<1>1. CASE LoadConfig
  BY <1>1 DEF LoadConfig, files, DurableStep, Durable!durableVars
<1>2. CASE LoadState
  <2>1. phase # "up" /\ config.conf = memConf /\ UNCHANGED <<memConf, config>>
    BY <1>2 DEF IInv, LockInv, DiskInv, LoadState
  <2>2. CASE phase' = "up"
    BY <2>1, <2>2, StartsServing
  <2>3. CASE phase' # "up"
    BY <2>1, <2>3 DEF DurableStep, Durable!durableVars
  <2>. QED BY <2>2, <2>3
<1>. QED BY <1>1, <1>2

\* However the process ends, the next one serves what is kept.
LEMMA EndIsDurable ==
    ASSUME Crash \/ PowerLoss
    PROVE  DurableStep
<1>1. phase' = "down" /\ UNCHANGED config
  BY DEF Crash, PowerLoss, MemoryLost
<1>2. CASE phase = "up"
  <2>1. Durable!Stop
    BY <1>1, <1>2 DEF Durable!Stop, Durable!Nothing, AllZero
  <2>. QED BY <2>1 DEF DurableStep, Durable!Next
<1>3. CASE phase # "up"
  BY <1>1, <1>3 DEF DurableStep, Durable!durableVars
<1>. QED BY <1>2, <1>3

LEMMA NextIsDurable == IInv /\ FirstInv /\ [Next]_vars => DurableStep
<1> SUFFICES ASSUME IInv, FirstInv, [Next]_vars
             PROVE  DurableStep
  OBVIOUS
<1>1. TypeOK'
  BY NextIInv DEF IInv
<1>2. CASE \/ \E w \in Writers : Update(w) \/ Replace(w) \/ Mark(w)
           \/ Flush \/ Close \/ \E t \in Timers : TimerFires(t)
           \/ UNCHANGED vars
  <2>1. UNCHANGED <<phase, memConf, memRt, config>>
    BY <1>2 DEF Update, Replace, Mark, Flush, Close, TimerFires, FlushTake, FlushShot,
                FlushWrite, FlushRemark, vars, memory, files
  <2>. QED BY <2>1, InnerSteps
<1>3. CASE \E s \in Savers : EnsureKey(s) \/ WriteConfig(s)
  BY <1>1, <1>3, SavingIsDurable
<1>4. CASE \E s \in Savers : Commit(s)
  BY <1>1, <1>4, CommitIsDurable
<1>5. CASE \E w \in Writers : UpdateState(w)
  BY <1>5, ReportIsDurable
<1>6. CASE LoadConfig \/ LoadState
  BY <1>1, <1>6, LoadIsDurable
<1>7. CASE Crash \/ PowerLoss
  BY <1>7, EndIsDurable
<1>. QED BY <1>2, <1>3, <1>4, <1>5, <1>6, <1>7 DEF Next, Save

\* The manager implements DurableSettings: whatever the writers, timers, failures and crashes,
\* callers and restarts see one change after the other, whole, and reports outlive every save
\* (config/store.go: Update, Replace, Load; config/state.go: preserveRuntimeState).
THEOREM ManagerIsDurable == Spec => SettingsAreDurable
<1>1. Spec => []FirstInv
  <2>1. Init => FirstInv
    BY InitIsDurable
  <2>. QED BY <2>1, FirstStep, Inductive, PTL DEF Spec
<1>2. Init => Durable!Init
  BY InitIsDurable
<1>3. IInv /\ FirstInv /\ [Next]_vars => [Durable!Next]_(Durable!durableVars)
  BY NextIsDurable DEF DurableStep
<1>. QED BY <1>1, <1>2, <1>3, Inductive, PTL DEF Spec, SettingsAreDurable, Durable!Spec
=============================================================================
