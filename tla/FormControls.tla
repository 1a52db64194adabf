----------------------------- MODULE FormControls -----------------------------
(***************************************************************************)
(* The controls of the training and adapters forms, and what they draw     *)
(* from a configuration: components/training/*.tsx and                     *)
(* components/adapters/*.tsx.  form is the configuration both pages edit   *)
(* in turn, saving in between; what the trainer makes of it is its         *)
(* bitsandbytes test (services/trainer.py).                                *)
(*                                                                         *)
(* Bounds: three target modules stand for the seven offered, a slider      *)
(* takes its least and its greatest value, and the curve of the learning   *)
(* rate has five points for 160, as thousandths.                           *)
(***************************************************************************)
EXTENDS Workbench

TARGET_MODULE_PRESETS == {"q_proj", "k_proj", "up_proj"}
STEPS_PER_EPOCH_ESTIMATE == 1200
MAX_WARMUP == 2000

\* types/config.ts, as far as these controls go
FormConfig ==
    [enabled : BOOLEAN, type : {"lora", "qlora"},
     modules : SUBSET TARGET_MODULE_PRESETS,
     quantized : BOOLEAN, mode : {"4bit", "8bit"},
     checkpointing : BOOLEAN, mixedPrecision : {"no", "bf16"},
     environment : {"local", "modal"}, dataPolicy : {"local_raw", "sanitized_cloud"},
     scheduler : {"cosine", "linear", "constant"},
     warmupSteps : {0, MAX_WARMUP}, epochs : {1, 10}]

(***************************************************************************)
(* The training page's tabs.                                               *)
(***************************************************************************)
\* METHOD_TILES: "dpo" is drawn but cannot be chosen
Methods == {"full", "lora", "qlora"}

ResolveMethod(f) == IF ~f.enabled THEN "full" ELSE f.type

MethodUpdate(f, method) ==
    IF method = "full" THEN [f EXCEPT !.enabled = FALSE]
    ELSE [f EXCEPT !.enabled = TRUE, !.type = method]

\* shown as int8 for the type alone, adapters enabled or not
ResolvePrecision(f) == IF f.type = "qlora" THEN "int8" ELSE f.mixedPrecision

PolicyForEnvironment(environment) ==
    IF environment = "modal" THEN "sanitized_cloud" ELSE "local_raw"

TrainingConfigTab(f) ==
    {MethodUpdate(f, m) : m \in Methods}
    \cup {[f EXCEPT !.mixedPrecision = p] : p \in {"no", "bf16"}}
    \cup {[f EXCEPT !.epochs = n] : n \in {1, 10}}

TrainingScheduleTab(f) ==
    {[f EXCEPT !.scheduler = s] : s \in {"cosine", "linear", "constant"}}
    \cup {[f EXCEPT !.warmupSteps = n] : n \in {0, MAX_WARMUP}}

\* one click sets the environment and its policy; the GPU type only follows
TrainingEnvironmentTab(f) ==
    {[f EXCEPT !.environment = e, !.dataPolicy = PolicyForEnvironment(e)] :
        e \in {"local", "modal"}}

\* TRAINING_PRESETS set epochs, and nothing another control reads here
TrainingPresetsPanel(f) == {[f EXCEPT !.epochs = 1]}

(***************************************************************************)
(* The curve of the learning rate.                                         *)
(***************************************************************************)
Cosine == <<1000, 854, 500, 146, 0>>   \* 500 * (1 + cos), by quarters

ScheduleValue(schedule, progress) ==
    CASE schedule = "cosine" -> Cosine[1 + (4 * progress) \div 1000]
      [] schedule = "linear" -> 1000 - progress
      [] schedule = "constant" -> 1000

AtMost(a, b) == IF a < b THEN a ELSE b
AtLeast(a, b) == IF a > b THEN a ELSE b

TotalSteps(f) == AtLeast(1, f.epochs * STEPS_PER_EPOCH_ESTIMATE)

\* mutant of EffectiveWarmup: the warmup may be longer than the run
WarmupAsSet(f) == f.warmupSteps

EffectiveWarmup(f) == AtMost(f.warmupSteps, TotalSteps(f))

\* buildPath: the height of the curve at a quarter of the run
Intensity(f, quarter) ==
    LET total == TotalSteps(f)
        warmup == EffectiveWarmup(f)
        step == (quarter * total) \div 4
        progress == (1000 * (step - warmup)) \div AtLeast(1, total - warmup)
    IN  IF step < warmup THEN (1000 * step) \div warmup
        ELSE AtLeast(0, AtMost(1000, ScheduleValue(f.scheduler, progress)))

LRCurve(f) == [i \in 1 .. 5 |-> Intensity(f, i - 1)]

(***************************************************************************)
(* The adapters page's tabs.                                               *)
(***************************************************************************)
ToggleTargetModule(f, m) ==
    [f EXCEPT !.modules = IF m \in @ THEN @ \ {m} ELSE @ \cup {m}]

LoRaSection(f) ==
    {[f EXCEPT !.enabled = b] : b \in BOOLEAN}
    \cup {[f EXCEPT !.type = t] : t \in {"lora", "qlora"}}
    \cup {ToggleTargetModule(f, m) : m \in TARGET_MODULE_PRESETS}

QuantizationSection(f) ==
    {[f EXCEPT !.quantized = b] : b \in BOOLEAN}
    \cup {[f EXCEPT !.mode = m] : m \in {"4bit", "8bit"}}

MemorySection(f) ==
    {[f EXCEPT !.checkpointing = b] : b \in BOOLEAN}
    \cup {[f EXCEPT !.mixedPrecision = p] : p \in {"no", "bf16"}}

\* tenths of a gigabyte, in the order of the bar
ResolveVramSegments(f) ==
    <<31, IF f.checkpointing THEN 8 ELSE 31, 31, IF f.checkpointing THEN 20 ELSE 68>>

VramFree(f) == AtLeast(0, 400 - FoldSeq(LAMBDA a, b : a + b, 0, ResolveVramSegments(f)))

\* percent for a hidden size, and the rank the slider offers at least
ComputeTrainablePercentage(f, rank, hiddenDim) ==
    IF ~f.enabled THEN 0
    ELSE (100 * rank * 2 * Cardinality(f.modules)) \div (hiddenDim * 28)

ADAPTERS_PRESETS == {"LoRA Minimal", "QLoRA 4-bit", "Full LoRA"}

\* mutant of ApplyPreset: a LoRA preset leaves the quantization as it is
ApplyAdaptersOnly(f, name) ==
    CASE name = "LoRA Minimal" ->
            [f EXCEPT !.enabled = TRUE, !.type = "lora", !.modules = {"q_proj"}]
      [] name = "QLoRA 4-bit" ->
            [f EXCEPT !.enabled = TRUE, !.type = "qlora", !.quantized = TRUE,
                      !.modules = {"q_proj", "k_proj"}, !.mode = "4bit"]
      [] name = "Full LoRA" ->
            [f EXCEPT !.enabled = TRUE, !.type = "lora",
                      !.modules = TARGET_MODULE_PRESETS]

\* handlePresetApply: what a preset names is set, the rest stays
ApplyPreset(f, name) ==
    CASE name = "LoRA Minimal" ->
            [f EXCEPT !.enabled = TRUE, !.type = "lora", !.modules = {"q_proj"},
                      !.quantized = FALSE]
      [] name = "QLoRA 4-bit" ->
            [f EXCEPT !.enabled = TRUE, !.type = "qlora",
                      !.modules = {"q_proj", "k_proj"}, !.checkpointing = TRUE,
                      !.mixedPrecision = "bf16", !.quantized = TRUE, !.mode = "4bit"]
      [] name = "Full LoRA" ->
            [f EXCEPT !.enabled = TRUE, !.type = "lora",
                      !.modules = TARGET_MODULE_PRESETS, !.quantized = FALSE]

\* needs_bitsandbytes and quant_mode of _stage_model_resolution
TrainedAs(f) ==
    [method |-> ResolveMethod(f),
     bits |-> IF f.quantized \/ (f.enabled /\ f.type = "qlora") THEN f.mode ELSE "16bit"]

(***************************************************************************)
(* The controls as one page: a click on any of them, or a preset, changes  *)
(* the configuration.                                                      *)
(***************************************************************************)
DefaultForm ==
    [enabled |-> TRUE, type |-> "lora", modules |-> {"q_proj", "k_proj"},
     quantized |-> FALSE, mode |-> "4bit", checkpointing |-> TRUE,
     mixedPrecision |-> "no", environment |-> "local", dataPolicy |-> "local_raw",
     scheduler |-> "cosine", warmupSteps |-> 0, epochs |-> 1]

\* preset: the one that was applied last and not changed since; "": none
FormUi == [form |-> DefaultForm, preset |-> ""]

Controls(f) ==
    UNION {TrainingConfigTab(f), TrainingScheduleTab(f), TrainingEnvironmentTab(f),
           TrainingPresetsPanel(f), LoRaSection(f), QuantizationSection(f),
           MemorySection(f)}

FormRest == UNCHANGED <<configVars, tour, activeProject, page, cfg, requestVars,
                        followed, steps>>

UseControl ==
    /\ page = "form"
    /\ \E f \in Controls(ui.form) \ {ui.form} : ui' = [form |-> f, preset |-> ""]
    /\ FormRest

UsePreset ==
    /\ page = "form"
    /\ \E name \in ADAPTERS_PRESETS :
        ui' = [form |-> ApplyPreset(ui.form, name), preset |-> name]
    /\ FormRest

\* what the name of a preset says of the run it leads to
Promised == [method |-> [x \in ADAPTERS_PRESETS |->
                            IF x = "QLoRA 4-bit" THEN "qlora" ELSE "lora"],
             bits |-> [x \in ADAPTERS_PRESETS |->
                            IF x = "QLoRA 4-bit" THEN "4bit" ELSE "16bit"]]
===============================================================================
