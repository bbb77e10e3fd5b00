-------------------------- MODULE ConfigStoreProofs --------------------------
(***************************************************************************)
(* For every set of keys, every counter width and every default: the pages *)
(* of ConfigStore keep a configuration that was saved or tried since, the  *)
(* last valid page is never destroyed, a save that answers true is in both *)
(* pages, and the whole implements ConfigRegister.                         *)
(***************************************************************************)
EXTENDS ConfigStore, TLAPS

-----------------------------------------------------------------------------
(* The inductive invariant, by part. *)

(* RAM has a configuration exactly while the power is on. *)
RamInv ==
  /\ pc = "off" => config = NoConfig
  /\ pc # "off" => config \in Config

(* A page never holds anything but the last save or one tried since; a board
   with no valid page was never configured. *)
PagesInv ==
  /\ \A p \in Pages : Valid(p) => page[p] \in {committed} \cup pending
  /\ ~AnyValid => committed = DefaultConfig

(* What the save is writing is the configuration in RAM, already an attempt. *)
BufferInv ==
  Saving => /\ buffer = config
            /\ config \in pending

(* While a page is being destroyed and rewritten, the other one is valid, or
   there was no valid page to destroy. *)
OrderInv ==
  Saving => /\ strict => Valid(Other(target))
            /\ ~strict /\ ~second => ~Valid(Other(target))
            /\ ~strict /\ pc = "erase" => ~Valid(target)

(* What has been written so far. *)
ProgressInv ==
  /\ pc = "write" => ~Valid(target)
  /\ pc = "verify" => page[target] \in {buffer, NoConfig}
  /\ Saving /\ second /\ success => page[Other(target)] = buffer

ConfigInv == TypeOK /\ RamInv /\ PagesInv /\ BufferInv /\ OrderInv /\ ProgressInv

-----------------------------------------------------------------------------
(* Updating some keys of a configuration gives a configuration. *)
LEMMA MergeType ==
  ASSUME NEW c \in Config, NEW keys \in SUBSET Field, NEW d \in [keys -> Value]
  PROVE  Merge(c, d) \in Config
BY DEF Merge, Config

(* Counting wraps inside the width of the counter. *)
LEMMA CountedType ==
  ASSUME NEW c \in Config
  PROVE  Counted(c) \in Config
<1>1. c["update_count"] \in 0 .. Modulus - 1
  BY ConfigAssumption DEF Config, Value
<1>2. (c["update_count"] + 1) % Modulus \in 0 .. Modulus - 1
  BY <1>1, ModulusAssumption
<1>. QED
  BY <1>2, ConfigAssumption DEF Counted, Config, Value

(* There are two pages and each is the other's other. *)
LEMMA TwoPages ==
  /\ Other(1) = 2 /\ Other(2) = 1
  /\ \A p \in Pages : Other(p) \in Pages /\ Other(p) # p /\ Other(Other(p)) = p
  /\ \A p, q \in Pages : q = p \/ q = Other(p)
BY DEF Pages, Other

(* The boot finds the last save or one tried since. *)
LEMMA BootIsKnown ==
  ASSUME TypeOK, PagesInv
  PROVE  /\ BootConfig \in {committed} \cup pending
         /\ BootConfig \in Config
<1>1. 1 \in Pages /\ 2 \in Pages /\ \A p \in Pages : p = 1 \/ p = 2
  BY DEF Pages
<1>. QED
  BY <1>1, ConfigAssumption DEF BootConfig, PagesInv, TypeOK, Valid, AnyValid

-----------------------------------------------------------------------------
(* The initial states. *)
LEMMA InitInv == Init => ConfigInv
<1>. SUFFICES ASSUME Init PROVE ConfigInv
  OBVIOUS
<1>1. 1 \in Pages /\ 2 \in Pages /\ \A p \in Pages : p = 1 \/ p = 2
  BY DEF Pages
<1>2. TypeOK
  BY <1>1, ConfigAssumption DEF Init, TypeOK, BootConfig, Valid
<1>3. PagesInv
  BY <1>1, ConfigAssumption DEF Init, PagesInv, BootConfig, Valid, AnyValid
<1>4. RamInv /\ BufferInv /\ OrderInv /\ ProgressInv
  BY DEF Init, RamInv, BufferInv, OrderInv, ProgressInv, Saving
<1>. QED
  BY <1>2, <1>3, <1>4 DEF ConfigInv

(* Every step keeps the invariant. *)
LEMMA NextInv == ConfigInv /\ [Next]_vars => ConfigInv'
<1>. SUFFICES ASSUME ConfigInv, [Next]_vars PROVE ConfigInv'
  OBVIOUS
<1>. USE TwoPages, ConfigAssumption DEF ConfigInv
<1>1. CASE Boot
  <2>1. TypeOK' /\ RamInv'
    BY <1>1, BootIsKnown DEF Boot, TypeOK, RamInv, save, history
  <2>2. PagesInv' /\ BufferInv' /\ OrderInv' /\ ProgressInv'
    BY <1>1 DEF Boot, PagesInv, BufferInv, OrderInv, ProgressInv, Saving, Valid, AnyValid,
                save, history
  <2>. QED
    BY <2>1, <2>2
<1>2. CASE Update
  <2>1. config' \in Config
    BY <1>2, MergeType DEF Update, RamInv
  <2>2. TypeOK' /\ RamInv'
    BY <1>2, <2>1 DEF Update, TypeOK, RamInv, save, history
  <2>3. PagesInv' /\ BufferInv' /\ OrderInv' /\ ProgressInv'
    BY <1>2 DEF Update, PagesInv, BufferInv, OrderInv, ProgressInv, Saving, Valid, AnyValid,
                save, history
  <2>. QED
    BY <2>2, <2>3
<1>3. CASE BeginSave
  <2>1. config' \in Config
    BY <1>3, CountedType DEF BeginSave, RamInv
  <2>2. 1 \in Pages /\ 2 \in Pages
    BY DEF Pages
  <2>3. TypeOK' /\ RamInv'
    BY <1>3, <2>1, <2>2 DEF BeginSave, TypeOK, RamInv, AnyValid, Valid
  <2>4. PagesInv'
    BY <1>3 DEF BeginSave, PagesInv, Valid, AnyValid
  <2>5. BufferInv' /\ ProgressInv'
    BY <1>3 DEF BeginSave, BufferInv, ProgressInv, Saving
  <2>6. OrderInv'
    BY <1>3, <2>2 DEF BeginSave, OrderInv, Saving, Valid, AnyValid, Pages
  <2>. QED
    BY <2>3, <2>4, <2>5, <2>6
<1>4. CASE Erase
  <2>1. TypeOK'
    BY <1>4 DEF Erase, TypeOK, save, history
  <2>2. RamInv' /\ BufferInv'
    BY <1>4 DEF Erase, RamInv, BufferInv, Saving, save, history
  <2>3. PagesInv'
    <3>1. target \in Pages /\ Other(target) \in Pages
      BY DEF TypeOK
    <3>2. page'[Other(target)] = page[Other(target)] /\ page'[target] = NoConfig
      BY <1>4, <3>1 DEF Erase, TypeOK
    <3>3. CASE strict
      BY <1>4, <3>1, <3>2, <3>3 DEF Erase, PagesInv, OrderInv, Saving, Valid, AnyValid, history
    <3>4. CASE ~strict
      BY <1>4, <3>1, <3>2, <3>4 DEF Erase, PagesInv, OrderInv, Saving, Valid, AnyValid, history
    <3>. QED
      BY <3>3, <3>4
  <2>4. OrderInv' /\ ProgressInv'
    BY <1>4 DEF Erase, OrderInv, ProgressInv, Saving, Valid, TypeOK, save
  <2>. QED
    BY <2>1, <2>2, <2>3, <2>4
<1>5. CASE Write
  <2>1. buffer \in Config /\ buffer \in pending
    BY <1>5 DEF Write, RamInv, BufferInv, Saving
  <2>2. target \in Pages /\ Other(target) \in Pages
    BY DEF TypeOK
  <2>3. page'[Other(target)] = page[Other(target)] /\ page'[target] = buffer
    BY <1>5, <2>2 DEF Write, TypeOK
  <2>4. TypeOK'
    BY <1>5, <2>1 DEF Write, TypeOK, save, history
  <2>5. RamInv' /\ BufferInv'
    BY <1>5 DEF Write, RamInv, BufferInv, Saving, save, history
  <2>6. PagesInv'
    BY <1>5, <2>1, <2>2, <2>3 DEF Write, PagesInv, Valid, AnyValid, history
  <2>7. OrderInv' /\ ProgressInv'
    BY <1>5, <2>2, <2>3 DEF Write, OrderInv, ProgressInv, Saving, Valid, save
  <2>. QED
    BY <2>4, <2>5, <2>6, <2>7
<1>6. CASE WriteFails
  <2>1. TypeOK' /\ RamInv' /\ BufferInv'
    BY <1>6 DEF WriteFails, TypeOK, RamInv, BufferInv, Saving, save, history
  <2>2. PagesInv'
    BY <1>6 DEF WriteFails, PagesInv, Valid, AnyValid, history
  <2>3. OrderInv' /\ ProgressInv'
    BY <1>6 DEF WriteFails, OrderInv, ProgressInv, Saving, Valid, save
  <2>. QED
    BY <2>1, <2>2, <2>3
<1>7. CASE VerifyFirst
  <2>. USE <1>7 DEF VerifyFirst
  <2>1. target \in Pages /\ Other(target) \in Pages /\ success' \in BOOLEAN
    BY DEF TypeOK, Valid
  <2>2. CASE success' \/ ~strict
    <3>1. TypeOK' /\ RamInv' /\ BufferInv'
      BY <2>1, <2>2 DEF TypeOK, RamInv, BufferInv, Saving, history
    <3>2. PagesInv'
      BY <2>2 DEF PagesInv, Valid, AnyValid, history
    <3>3. OrderInv'
      BY <2>1, <2>2 DEF OrderInv, Saving, Valid
    <3>4. ProgressInv'
      BY <2>1, <2>2 DEF ProgressInv, Saving, Valid
    <3>. QED
      BY <3>1, <3>2, <3>3, <3>4
  <2>3. CASE ~(success' \/ ~strict)
    <3>1. TypeOK' /\ RamInv' /\ BufferInv' /\ OrderInv' /\ ProgressInv'
      BY <2>1, <2>3 DEF TypeOK, RamInv, BufferInv, OrderInv, ProgressInv, Saving, Reply
    <3>2. PagesInv'
      BY <2>3 DEF PagesInv, Valid, AnyValid, Reply
    <3>. QED
      BY <3>1, <3>2
  <2>. QED
    BY <2>2, <2>3
<1>8. CASE VerifySecond
  <2>. USE <1>8 DEF VerifySecond, Reply
  <2>1. target \in Pages /\ Other(target) \in Pages /\ success' \in BOOLEAN
    BY DEF TypeOK, Valid
  <2>2. buffer \in Config
    BY DEF RamInv, BufferInv, Saving
  <2>3. TypeOK' /\ RamInv' /\ BufferInv' /\ OrderInv' /\ ProgressInv'
    BY <2>1, <2>2 DEF TypeOK, RamInv, BufferInv, OrderInv, ProgressInv, Saving
  <2>4. CASE success'
    <3>1. page[target] = buffer /\ page[Other(target)] = buffer
      BY <2>4 DEF ProgressInv, Valid, Saving
    <3>. QED
      BY <2>1, <2>2, <2>3, <2>4, <3>1 DEF PagesInv, Valid, AnyValid
  <2>5. CASE ~success'
    BY <2>3, <2>5 DEF PagesInv, Valid, AnyValid
  <2>. QED
    BY <2>1, <2>4, <2>5
<1>9. CASE PowerLoss
  <2>1. 1 \in Pages
    BY DEF Pages
  <2>2. TypeOK' /\ RamInv' /\ BufferInv' /\ OrderInv' /\ ProgressInv'
    BY <1>9, <2>1 DEF PowerLoss, TypeOK, RamInv, BufferInv, OrderInv, ProgressInv, Saving, history
  <2>3. PagesInv'
    BY <1>9 DEF PowerLoss, PagesInv, Valid, AnyValid, history
  <2>. QED
    BY <2>2, <2>3
<1>10. CASE \E p \in Pages : Corrupt(p)
  <2>1. PICK p \in Pages : Corrupt(p)
    BY <1>10
  <2>2. page'[Other(p)] = page[Other(p)] /\ page'[p] = NoConfig
    BY <2>1 DEF Corrupt, TypeOK
  <2>3. TypeOK' /\ RamInv' /\ BufferInv' /\ OrderInv' /\ ProgressInv'
    BY <2>1 DEF Corrupt, TypeOK, RamInv, BufferInv, OrderInv, ProgressInv, Saving, save, history
  <2>4. PagesInv'
    BY <2>1, <2>2 DEF Corrupt, PagesInv, Valid, AnyValid, history
  <2>. QED
    BY <2>3, <2>4
<1>11. CASE UNCHANGED vars
  BY <1>11 DEF vars, save, history, TypeOK, RamInv, PagesInv, BufferInv, OrderInv, ProgressInv,
               Saving, Valid, AnyValid
<1>. QED
  BY <1>1, <1>2, <1>3, <1>4, <1>5, <1>6, <1>7, <1>8, <1>9, <1>10, <1>11 DEF Next

(* The inductive invariant holds in every reachable state. *)
THEOREM Invariance == Spec => []ConfigInv
<1>. QED
  BY InitInv, NextInv, PTL DEF Spec

-----------------------------------------------------------------------------
(* Every variable stays in its type; in particular the counter wraps instead
   of leaving its width, and what is saved is always a whole configuration. *)
THEOREM TypeCorrect == Spec => []TypeOK
<1>1. ConfigInv => TypeOK
  BY DEF ConfigInv
<1>. QED
  BY <1>1, Invariance, PTL

(* Wherever the power fails, the boot finds the last acknowledged
   configuration or one tried since (bootloader_main after any prefix of
   command_config_write_to_flash). *)
THEOREM AlwaysRecoverable == Spec => []Recoverable
<1>1. ConfigInv => Recoverable
  BY BootIsKnown DEF ConfigInv, Recoverable
<1>. QED
  BY <1>1, Invariance, PTL

(* A board never loses its last valid page. *)
THEOREM NeverBricks == Spec => NeverBricked
<1>1. ConfigInv /\ [Next]_vars => [AnyValid => AnyValid']_vars
  <2>. SUFFICES ASSUME ConfigInv, Next, AnyValid PROVE AnyValid'
    BY DEF vars, AnyValid, Valid, save, history
  <2>. USE TwoPages, ConfigAssumption DEF ConfigInv, AnyValid, Valid
  <2>1. CASE Erase
    <3>1. target \in Pages /\ Other(target) \in Pages
      BY DEF TypeOK
    <3>2. page'[Other(target)] = page[Other(target)]
      BY <2>1, <3>1 DEF Erase, TypeOK
    <3>3. strict => page[Other(target)] # NoConfig
      BY <2>1 DEF Erase, OrderInv, Saving
    <3>4. ~strict => page[target] = NoConfig
      BY <2>1 DEF Erase, OrderInv, Saving
    <3>. QED
      BY <3>1, <3>2, <3>3, <3>4
  <2>2. CASE Write
    <3>1. buffer # NoConfig
      BY <2>2 DEF Write, RamInv, BufferInv, Saving
    <3>. QED
      BY <2>2, <3>1 DEF Write, TypeOK
  <2>3. CASE \E p \in Pages : Corrupt(p)
    BY <2>3 DEF Corrupt, TypeOK
  <2>4. CASE Boot \/ Update \/ BeginSave \/ WriteFails \/ VerifyFirst \/ VerifySecond \/ PowerLoss
    BY <2>4 DEF Boot, Update, BeginSave, WriteFails, VerifyFirst, VerifySecond, PowerLoss
  <2>. QED
    BY <2>1, <2>2, <2>3, <2>4 DEF Next
<1>. QED
  BY <1>1, Invariance, PTL DEF Spec, NeverBricked

(* A save answers true only when both pages hold the configuration. *)
THEOREM TrueIsInBothPages == Spec => TrueMeansBothPages
<1>1. ConfigInv /\ [Next]_vars
        => [pending # {} /\ pending' = {} => \A p \in Pages : page'[p] = committed']_vars
  <2>. SUFFICES ASSUME ConfigInv, Next, pending # {}, pending' = {}
                PROVE  \A p \in Pages : page'[p] = committed'
    BY DEF vars, history
  <2>1. VerifySecond /\ success'
    BY DEF Next, Boot, Update, BeginSave, Erase, Write, WriteFails, VerifyFirst, VerifySecond,
           PowerLoss, Corrupt, Reply, history
  <2>2. page[target] = buffer /\ page[Other(target)] = buffer
    BY <2>1 DEF VerifySecond, ConfigInv, ProgressInv, Valid, Saving
  <2>3. \A p \in Pages : p = target \/ p = Other(target)
    BY TwoPages DEF ConfigInv, TypeOK
  <2>. QED
    BY <2>1, <2>2, <2>3 DEF VerifySecond, Reply
<1>. QED
  BY <1>1, Invariance, PTL DEF Spec, TrueMeansBothPages

-----------------------------------------------------------------------------
(* The two pages implement the crash-safe register: the initial states map
   to initial states, and every step to a step of the register or to none. *)
THEOREM Refinement == Spec => RegisterSpec
<1>1. Init => Register!Init
  BY InitInv DEF Init, Register!Init, ConfigInv, TypeOK
<1>2. ConfigInv /\ [Next]_vars => [Register!Next]_(Register!vars)
  <2>. SUFFICES ASSUME ConfigInv, [Next]_vars
                PROVE  Register!Next \/ UNCHANGED <<config, committed, pending>>
    BY DEF Register!vars
  <2>. USE ConfigAssumption DEF ConfigInv, Register!Next, Register!Powered
  <2>1. CASE Boot
    BY <2>1, BootIsKnown DEF Boot, RamInv, Register!Boot, history
  <2>2. CASE Update
    <3>1. config' \in Config
      BY <2>2, MergeType DEF Update, RamInv
    <3>. QED
      BY <2>2, <3>1 DEF Update, RamInv, Register!Update, history
  <2>3. CASE BeginSave
    <3>1. config' \in Config
      BY <2>3, CountedType DEF BeginSave, RamInv
    <3>. QED
      BY <2>3, <3>1 DEF BeginSave, RamInv, Register!Attempt
  <2>4. CASE VerifySecond /\ success'
    BY <2>4 DEF VerifySecond, Reply, BufferInv, Saving, Register!Commit
  <2>5. CASE VerifySecond /\ ~success'
    BY <2>5 DEF VerifySecond, Reply
  <2>6. CASE VerifyFirst
    BY <2>6 DEF VerifyFirst, Reply, history
  <2>7. CASE PowerLoss
    BY <2>7 DEF PowerLoss, RamInv, Register!PowerLoss, history
  <2>8. CASE Erase \/ Write \/ WriteFails \/ (\E p \in Pages : Corrupt(p)) \/ UNCHANGED vars
    BY <2>8 DEF Erase, Write, WriteFails, Corrupt, vars, history
  <2>. QED
    BY <2>1, <2>2, <2>3, <2>4, <2>5, <2>6, <2>7, <2>8 DEF Next
<1>. QED
  BY <1>1, <1>2, Invariance, PTL DEF Spec, RegisterSpec, Register!Spec
=============================================================================
