----------------------------- MODULE BootConfig -----------------------------
(***************************************************************************)
(* The configuration of a build: the values of boot_config.h, the memory   *)
(* maps of the two targets, and the checks that the preprocessor makes.    *)
(***************************************************************************)
EXTENDS Integers

\* boot_target_config.h of the HC32F460.
Hc32Target ==
    [stubStart |-> 0, stubSize |-> 16384, meta |-> 8192, metaPage |-> 8192,
     appEnd |-> 491520, appPage |-> 8192]

\* boot_target_config.h of the STM32F4; 0x08000000 is 134217728.
Stm32Target ==
    [stubStart |-> 134217728, stubSize |-> 16384, meta |-> 134217728 + 8192,
     metaPage |-> 8192, appEnd |-> 134217728 + 524288, appPage |-> 8192]

\* The defaults of boot_config.h.
Defaults ==
    [mode |-> 2, candFirst |-> 769, candLast |-> 896, goodFirst |-> 897, goodLast |-> 1024,
     sectorSize |-> 4096, transfer |-> 8192, stream |-> 13 * 1024]

StubEnd(t)  == t.stubStart + t.stubSize
AppBegin(t) == StubEnd(t)

\* The #error lines of boot_config.h.
StorageChecks(d) ==
    /\ d.mode \in {1, 2}
    /\ d.mode = 2 => /\ d.candFirst # 0 /\ d.goodFirst # 0
                     /\ d.candFirst <= d.candLast /\ d.goodFirst <= d.goodLast
    /\ d.transfer <= d.stream
    /\ d.transfer % 4 = 0

MapChecks(t) ==
    /\ AppBegin(t) < t.appEnd
    /\ t.stubSize % t.appPage = 0
    /\ ~ (t.meta < StubEnd(t) /\ t.meta >= AppBegin(t))
    /\ t.meta + t.metaPage <= AppBegin(t)

\* The configurations in the repository build.
ASSUME ConfigAssumption ==
    /\ StorageChecks(Defaults)
    /\ MapChecks(Hc32Target)
    /\ MapChecks(Stm32Target)
=============================================================================
