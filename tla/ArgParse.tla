------------------------------ MODULE ArgParse ------------------------------
(***************************************************************************)
(* Command-line parsing of common/arg.cpp: gpt_params_parse and           *)
(* gpt_params_parse_ex, with the add_opt filter of gpt_params_parser_init, *)
(* the environment-variable pass, the argv loop, the post-processing of   *)
(* gpt_params_handle_model_default, and TZ-LLM's parse_prompt, which maps  *)
(* "-p model#len" to a model file and a benchmark prompt.                  *)
(*                                                                         *)
(* Strings are abstracted: argv tokens and environment values are members  *)
(* of small sets, and the conversions the code applies to them (std::stoi, *)
(* the '_' to '-' rewrite of "--" options, the split at '#', the basename  *)
(* taken by string_split) are tables over those sets that the MC module    *)
(* fills in with what the conversion returns.                              *)
(***************************************************************************)
EXTENDS Integers, Sequences, SequencesExt

CONSTANTS
  Ex,         \* the llama_example the binary was built as
  Tokens,     \* the argv tokens a run may pass
  Inputs,     \* the pairs of argv[1..] and environment a run may start with
  Unset,      \* getenv returned NULL
  Stoi,       \* std::stoi on the tokens it accepts (the others throw)
  Files,      \* the tokens naming a file std::ifstream can open
  Dashed,     \* std::replace('_', '-') on the "--" tokens containing '_'
  HashSplit,  \* value.substr around find('#'), on the tokens containing '#'
  Basename    \* string_split(x, '/').back(), on the values it changes

VARIABLES argv, env, params, phase, i
vars == <<argv, env, params, phase, i>>

\* The --numa values and the ggml_numa_strategy each selects.
NumaStrategy == [v \in {"distribute", "", "isolate", "numactl"} |->
                   IF v \in {"distribute", ""} THEN "distribute" ELSE v]

\* The --rope-scaling values, each its llama_rope_scaling_type.
RopeScalingType == [v \in {"none", "linear", "yarn"} |-> v]

\* The --split-mode values, each its llama_split_mode (GGML_USE_SYCL unset).
SplitMode == [v \in {"none", "layer", "row"} |-> v]

(***************************************************************************)
(* The modelled add_opt calls, in the order gpt_params_parser_init makes  *)
(* them (the order of ctx_arg.options).  A void option's handler stores   *)
(* the values of "sets" in its fields; an option with a value runs the    *)
(* handler named by "h" and "fields" are the fields it assigns.  The cpuparams and  *)
(* cpuparams_batch members are the fields n_threads, priority and         *)
(* n_threads_batch, priority_batch.                                       *)
(***************************************************************************)
OptHelp == [args |-> {"-h", "--help", "--usage"}, kind |-> "void", env |-> Unset,
            ex |-> {"COMMON"}, sets |-> [usage |-> TRUE]]
OptThreads == [args |-> {"-t", "--threads"}, kind |-> "int", h |-> "threads", env |-> "LLAMA_ARG_THREADS",
               ex |-> {"COMMON"}, fields |-> {"n_threads"}]
OptThreadsBatch == [args |-> {"-tb", "--threads-batch"}, kind |-> "int", h |-> "threads", env |-> Unset,
                    ex |-> {"COMMON"}, fields |-> {"n_threads_batch"}]
OptPrio == [args |-> {"--prio"}, kind |-> "int", h |-> "prio", env |-> Unset,
            ex |-> {"COMMON"}, fields |-> {"priority"}]
OptPrioBatch == [args |-> {"--prio-batch"}, kind |-> "int", h |-> "prio", env |-> Unset,
                 ex |-> {"COMMON"}, fields |-> {"priority_batch"}]
OptCtxSize == [args |-> {"-c", "--ctx-size"}, kind |-> "int", h |-> "int", env |-> "LLAMA_ARG_CTX_SIZE",
               ex |-> {"COMMON"}, fields |-> {"n_ctx"}]
OptPredict == [args |-> {"-n", "--predict", "--n-predict"}, kind |-> "int", h |-> "int", env |-> "LLAMA_ARG_N_PREDICT",
               ex |-> {"COMMON"}, fields |-> {"n_predict"}]
OptBatchSize == [args |-> {"-b", "--batch-size"}, kind |-> "int", h |-> "int", env |-> "LLAMA_ARG_BATCH",
                 ex |-> {"COMMON"}, fields |-> {"n_batch"}]
OptUbatchSize == [args |-> {"-ub", "--ubatch-size"}, kind |-> "int", h |-> "int", env |-> "LLAMA_ARG_UBATCH",
                  ex |-> {"COMMON"}, fields |-> {"n_ubatch"}]
OptFlashAttn == [args |-> {"-fa", "--flash-attn"}, kind |-> "void", env |-> "LLAMA_ARG_FLASH_ATTN",
                 ex |-> {"COMMON"}, sets |-> [flash_attn |-> TRUE]]
OptPrompt == [args |-> {"-p", "--prompt"}, kind |-> "string", h |-> "prompt", env |-> Unset,
              ex |-> {"COMMON"}, fields |-> {"prompt", "io_model_path"}]
OptNoPerf == [args |-> {"--no-perf"}, kind |-> "void", env |-> "LLAMA_ARG_NO_PERF",
             ex |-> {"COMMON"}, sets |-> [no_perf |-> TRUE, sparams_no_perf |-> TRUE]]
OptFile == [args |-> {"-f", "--file"}, kind |-> "string", h |-> "file", env |-> Unset,
            ex |-> {"COMMON"}, fields |-> {"prompt", "prompt_file"}]
OptBinaryFile == [args |-> {"-bf", "--binary-file"}, kind |-> "string", h |-> "binary_file", env |-> Unset,
                  ex |-> {"COMMON"}, fields |-> {"prompt", "prompt_file"}]
OptEscape == [args |-> {"-e", "--escape"}, kind |-> "void", env |-> Unset,
              ex |-> {"COMMON"}, sets |-> [escape |-> TRUE]]
OptNoEscape == [args |-> {"--no-escape"}, kind |-> "void", env |-> Unset,
                ex |-> {"COMMON"}, sets |-> [escape |-> FALSE]]
OptPromptCacheAll == [args |-> {"--prompt-cache-all"}, kind |-> "void", env |-> Unset,
                      ex |-> {"MAIN"}, sets |-> [prompt_cache_all |-> TRUE]]
OptReversePrompt == [args |-> {"-r", "--reverse-prompt"}, kind |-> "string", h |-> "antiprompt", env |-> Unset,
                     ex |-> {"MAIN"}, fields |-> {"antiprompt"}]
OptConversation == [args |-> {"-cnv", "--conversation"}, kind |-> "void", env |-> Unset,
                    ex |-> {"MAIN"}, sets |-> [conversation |-> TRUE]]
OptInteractive == [args |-> {"-i", "--interactive"}, kind |-> "void", env |-> Unset,
                   ex |-> {"MAIN"}, sets |-> [interactive |-> TRUE]]
OptInteractiveFirst == [args |-> {"-if", "--interactive-first"}, kind |-> "void", env |-> Unset,
                        ex |-> {"MAIN"}, sets |-> [interactive_first |-> TRUE]]
OptMultilineInput == [args |-> {"-mli", "--multiline-input"}, kind |-> "void", env |-> Unset,
                      ex |-> {"MAIN"}, sets |-> [multiline_input |-> TRUE]]
OptInPrefixBos == [args |-> {"--in-prefix-bos"}, kind |-> "void", env |-> Unset,
                   ex |-> {"MAIN"}, sets |-> [input_prefix_bos |-> TRUE, enable_chat_template |-> FALSE]]
OptInPrefix == [args |-> {"--in-prefix"}, kind |-> "string", h |-> "affix", field |-> "input_prefix",
                env |-> Unset, ex |-> {"MAIN", "INFILL"}, fields |-> {"input_prefix", "enable_chat_template"}]
OptInSuffix == [args |-> {"--in-suffix"}, kind |-> "string", h |-> "affix", field |-> "input_suffix",
                env |-> Unset, ex |-> {"MAIN", "INFILL"}, fields |-> {"input_suffix", "enable_chat_template"}]
OptRopeScaling == [args |-> {"--rope-scaling"}, kind |-> "string", h |-> "enum", table |-> RopeScalingType,
                   env |-> Unset, ex |-> {"COMMON"}, fields |-> {"rope_scaling_type"}]
OptDefragThold == [args |-> {"-dt", "--defrag-thold"}, kind |-> "string", h |-> "int", env |-> "LLAMA_ARG_DEFRAG_THOLD",
                   ex |-> {"COMMON"}, fields |-> {"defrag_thold"}]
OptParallel == [args |-> {"-np", "--parallel"}, kind |-> "int", h |-> "int", env |-> "LLAMA_ARG_N_PARALLEL",
                ex |-> {"COMMON"}, fields |-> {"n_parallel"}]
OptContBatching == [args |-> {"-cb", "--cont-batching"}, kind |-> "void", env |-> "LLAMA_ARG_CONT_BATCHING",
                    ex |-> {"SERVER"}, sets |-> [cont_batching |-> TRUE]]
OptNoContBatching == [args |-> {"-nocb", "--no-cont-batching"}, kind |-> "void", env |-> "LLAMA_ARG_NO_CONT_BATCHING",
                      ex |-> {"SERVER"}, sets |-> [cont_batching |-> FALSE]]
OptNuma == [args |-> {"--numa"}, kind |-> "string", h |-> "enum", table |-> NumaStrategy, env |-> Unset,
            ex |-> {"COMMON"}, fields |-> {"numa"}]
OptGpuLayers == [args |-> {"-ngl", "--gpu-layers", "--n-gpu-layers"}, kind |-> "int", h |-> "int",
                 env |-> "LLAMA_ARG_N_GPU_LAYERS", ex |-> {"COMMON"}, fields |-> {"n_gpu_layers"}]
OptSplitMode == [args |-> {"-sm", "--split-mode"}, kind |-> "string", h |-> "enum", table |-> SplitMode,
                 env |-> Unset, ex |-> {"COMMON"}, fields |-> {"split_mode"}]
OptModel == [args |-> {"-m", "--model"}, kind |-> "string", h |-> "string", env |-> "LLAMA_ARG_MODEL",
             ex |-> {"COMMON", "EXPORT_LORA"}, fields |-> {"model"}]
OptModelUrl == [args |-> {"-mu", "--model-url"}, kind |-> "string", h |-> "string", env |-> "LLAMA_ARG_MODEL_URL",
                ex |-> {"COMMON"}, fields |-> {"model_url"}]
OptHfRepo == [args |-> {"-hfr", "--hf-repo"}, kind |-> "string", h |-> "string", env |-> "LLAMA_ARG_HF_REPO",
              ex |-> {"COMMON"}, fields |-> {"hf_repo"}]
OptHfFile == [args |-> {"-hff", "--hf-file"}, kind |-> "string", h |-> "string", env |-> "LLAMA_ARG_HF_FILE",
              ex |-> {"COMMON"}, fields |-> {"hf_file"}]
OptHfToken == [args |-> {"-hft", "--hf-token"}, kind |-> "string", h |-> "string", env |-> "HF_TOKEN",
               ex |-> {"COMMON"}, fields |-> {"hf_token"}]

AllOptions == <<OptHelp, OptThreads, OptThreadsBatch, OptPrio, OptPrioBatch,
                OptCtxSize, OptPredict, OptBatchSize, OptUbatchSize, OptFlashAttn,
                OptPrompt, OptNoPerf, OptFile, OptBinaryFile, OptEscape, OptNoEscape,
                OptPromptCacheAll, OptReversePrompt, OptConversation, OptInteractive,
                OptInteractiveFirst, OptMultilineInput, OptInPrefixBos, OptInPrefix,
                OptInSuffix, OptRopeScaling, OptDefragThold, OptParallel, OptContBatching, OptNoContBatching, OptNuma, OptGpuLayers,
                OptSplitMode, OptModel, OptModelUrl, OptHfRepo, OptHfFile, OptHfToken>>

\* in_example: the option lists ex among its examples.
in_example(o, e) == e \in o.ex

\* add_opt keeps an option of this example or of every example.
Options == SelectSeq(AllOptions, LAMBDA o : in_example(o, Ex) \/ in_example(o, "COMMON"))

\* arg_to_options: every spelling of every kept option.
ArgToOptions == [a \in UNION {o.args : o \in ToSet(Options)} |->
                   CHOOSE o \in ToSet(Options) : a \in o.args]

\* get_value_from_env: the value of the option's variable, Unset if it has none.
get_value_from_env(o) == IF o.env = Unset THEN Unset ELSE env[o.env]

(***************************************************************************)
(* The gpt_params fields the modelled options touch, at their defaults.   *)
(***************************************************************************)
HardwareConcurrency == 8
MathCores == 4
\* params.prompt is a sequence of pieces: the text of a -p table prompt, or
\* the contents of a -f or -bf file.  The empty sequence is the empty string.
Defaults == [usage |-> FALSE, n_threads |-> -1, priority |-> 0,
             n_threads_batch |-> -1, priority_batch |-> 0, flash_attn |-> FALSE,
             prompt |-> <<>>, io_model_path |-> "", prompt_file |-> "", escape |-> TRUE,
             prompt_cache_all |-> FALSE, antiprompt |-> <<>>, interactive |-> FALSE,
             interactive_first |-> FALSE, cont_batching |-> TRUE, numa |-> "disabled",
             model |-> "", model_url |-> "", hf_repo |-> "", hf_file |-> "", hf_token |-> "",
             n_ctx |-> "default", n_predict |-> "default", n_batch |-> "default",
             n_ubatch |-> "default", no_perf |-> FALSE, sparams_no_perf |-> FALSE,
             rope_scaling_type |-> "default", defrag_thold |-> "default",
             n_parallel |-> "default", n_gpu_layers |-> "default", split_mode |-> "layer",
             conversation |-> FALSE, multiline_input |-> FALSE, input_prefix_bos |-> FALSE, input_prefix |-> "",
             input_suffix |-> "", enable_chat_template |-> TRUE]

\* A handler returns the new params, or reports that it threw or aborted.
Ok(p) == [st |-> "ok", p |-> p]
Thrown(p) == [st |-> "throw", p |-> p]
Aborted(p) == [st |-> "abort", p |-> p]

(***************************************************************************)
(* parse_prompt.  The three benchmark tables hold 10, 5 and 5 prompts;    *)
(* a len below their total indexes them, any other len must be a case of  *)
(* the model's switch.                                                     *)
(***************************************************************************)
NUltraChat == 10
NPersona == 5
NDroid == 5
FixedLens == [tinyllama |-> {32, 64, 128, 256, 512},
              gemma     |-> {32, 128, 512},
              qwen      |-> {1, 32, 64, 128, 192, 256, 320, 384, 448, 512},
              phi       |-> {32, 128, 512},
              llama     |-> {32 * k : k \in 1..16} \cup {1}]

PromptFor(model, len) ==
  IF len < NUltraChat THEN <<"ultra_chat", len>>
  ELSE IF len < NUltraChat + NPersona THEN <<"persona", len - NUltraChat>>
  ELSE IF len < NUltraChat + NPersona + NDroid THEN <<"droid", len - NUltraChat - NPersona>>
  ELSE IF len \in FixedLens[model] THEN <<"fixed", model, len>>
  ELSE <<"abort">>

parse_prompt(p, value) ==
  IF value \notin DOMAIN HashSplit THEN Aborted(p)
  ELSE LET model == HashSplit[value][1]
           len   == HashSplit[value][2] IN
       IF len \notin DOMAIN Stoi THEN Thrown(p)
       ELSE IF model \notin DOMAIN FixedLens \/ Stoi[len] < 0 THEN Aborted(p)
       ELSE IF PromptFor(model, Stoi[len]) = <<"abort">> THEN Aborted(p)
       ELSE Ok([p EXCEPT !.io_model_path = model, !.prompt = <<PromptFor(model, Stoi[len])>>])

\* The handler of a void option: it sets each of its fields.
HandlerVoid(o, p) == [f \in DOMAIN p |-> IF f \in DOMAIN o.sets THEN o.sets[f] ELSE p[f]]

\* The gpt_params fields an option's handler assigns.
Fields(o) == IF o.kind = "void" THEN DOMAIN o.sets ELSE o.fields

\* The one field a single-field handler assigns.
Field(o) == CHOOSE f \in o.fields : TRUE

\* Fault variant of HandlerValue: -t and -tb store the count without the
\* <= 0 fallback.
HandlerValue_noFallback(o, p, v) ==
  CASE o.h = "threads" ->
         IF v \notin DOMAIN Stoi THEN Thrown(p) ELSE Ok([p EXCEPT ![Field(o)] = Stoi[v]])
    [] o.h = "prio" ->
         IF v \notin DOMAIN Stoi \/ Stoi[v] < 0 \/ Stoi[v] > 3 THEN Thrown(p)
         ELSE Ok([p EXCEPT ![Field(o)] = Stoi[v]])
    [] o.h = "prompt" -> parse_prompt(p, v)
    [] o.h = "file" ->
         IF v \notin Files THEN Thrown(p)
         ELSE Ok([p EXCEPT !.prompt_file = v, !.prompt = Append(@, <<"file", v>>)])
    [] o.h = "binary_file" ->
         IF v \notin Files THEN Thrown(p)
         ELSE Ok([p EXCEPT !.prompt_file = v, !.prompt = <<<<"binary_file", v>>>>])
    [] o.h = "antiprompt" -> Ok([p EXCEPT !.antiprompt = Append(@, v)])
    [] o.h = "int" ->
         IF v \notin DOMAIN Stoi THEN Thrown(p) ELSE Ok([p EXCEPT ![Field(o)] = Stoi[v]])
    [] o.h = "enum" ->
         IF v \notin DOMAIN o.table THEN Thrown(p) ELSE Ok([p EXCEPT ![Field(o)] = o.table[v]])
    [] o.h = "affix" -> Ok([p EXCEPT ![o.field] = v, !.enable_chat_template = FALSE])
    [] o.h = "string" -> Ok([p EXCEPT ![Field(o)] = v])

\* The handler of an option taking a value, by its add_opt lambda: std::stoi
\* throws on a non-number; --prio and --prio-batch throw outside 0..3; -f
\* and -bf throw when the file does not open, -f appends the file (its
\* trailing newline popped) to the prompt and -bf replaces the prompt with
\* the raw bytes; -r appends to antiprompt; --in-prefix and --in-suffix
\* also turn the chat template off; --numa, --rope-scaling and
\* --split-mode throw on a value outside their table; -dt's std::stof
\* accepts, among the modelled tokens, exactly the numbers std::stoi does.
HandlerValue(o, p, v) ==
  CASE o.h = "threads" ->
         IF v \notin DOMAIN Stoi THEN Thrown(p)
         ELSE Ok([p EXCEPT ![Field(o)] = IF Stoi[v] <= 0 THEN HardwareConcurrency ELSE Stoi[v]])
    [] o.h = "prio" ->
         IF v \notin DOMAIN Stoi \/ Stoi[v] < 0 \/ Stoi[v] > 3 THEN Thrown(p)
         ELSE Ok([p EXCEPT ![Field(o)] = Stoi[v]])
    [] o.h = "prompt" -> parse_prompt(p, v)
    [] o.h = "file" ->
         IF v \notin Files THEN Thrown(p)
         ELSE Ok([p EXCEPT !.prompt_file = v, !.prompt = Append(@, <<"file", v>>)])
    [] o.h = "binary_file" ->
         IF v \notin Files THEN Thrown(p)
         ELSE Ok([p EXCEPT !.prompt_file = v, !.prompt = <<<<"binary_file", v>>>>])
    [] o.h = "antiprompt" -> Ok([p EXCEPT !.antiprompt = Append(@, v)])
    [] o.h = "int" ->
         IF v \notin DOMAIN Stoi THEN Thrown(p) ELSE Ok([p EXCEPT ![Field(o)] = Stoi[v]])
    [] o.h = "enum" ->
         IF v \notin DOMAIN o.table THEN Thrown(p) ELSE Ok([p EXCEPT ![Field(o)] = o.table[v]])
    [] o.h = "affix" -> Ok([p EXCEPT ![o.field] = v, !.enable_chat_template = FALSE])
    [] o.h = "string" -> Ok([p EXCEPT ![Field(o)] = v])

\* One option of the environment loop: a void option only for "1" or "true".
EnvApply(o, p) ==
  LET v == get_value_from_env(o) IN
  IF v = Unset THEN Ok(p)
  ELSE IF o.kind = "void"
       THEN IF v \in {"1", "true"} THEN Ok(HandlerVoid(o, p)) ELSE Ok(p)
       ELSE HandlerValue(o, p, v)

\* The environment loop over ctx_arg.options, stopping at the first throw.
RECURSIVE EnvLoop(_, _)
EnvLoop(p, opts) ==
  IF opts = <<>> THEN Ok(p)
  ELSE LET r == EnvApply(Head(opts), p) IN
       IF r.st /= "ok" THEN r ELSE EnvLoop(r.p, Tail(opts))

\* The token after the "--" rewrite.
Canon(t) == IF t \in DOMAIN Dashed THEN Dashed[t] ELSE t

fs_get_cache_file(f) == "cache/" \o f
DefaultModelPath == "models/7B/ggml-model-f16.gguf"

\* gpt_params_handle_model_default.
HandleModelDefault(p) ==
  IF p.hf_repo /= ""
  THEN IF p.hf_file = ""
       THEN IF p.model = "" THEN Thrown(p) ELSE Ok([p EXCEPT !.hf_file = p.model])
       ELSE IF p.model = "" THEN Ok([p EXCEPT !.model = fs_get_cache_file(Basename[p.hf_file])])
       ELSE Ok(p)
  ELSE IF p.model_url /= ""
  THEN IF p.model = "" THEN Ok([p EXCEPT !.model = fs_get_cache_file(Basename[p.model_url])])
       ELSE Ok(p)
  ELSE IF p.model = "" THEN Ok([p EXCEPT !.model = DefaultModelPath])
  ELSE Ok(p)

\* The prompt pieces that may hold "\\" sequences: the droid_task table
\* prompts and file contents.  No modelled argv token holds one, so
\* input_prefix, input_suffix and the antiprompts are left as they are.
EscapeCarriers == {"droid", "file", "binary_file"}

\* string_process_escapes on the prompt, when escape is set.
ProcessEscapes(p) ==
  IF ~p.escape THEN p
  ELSE [p EXCEPT !.prompt = [k \in DOMAIN p.prompt |->
                               IF p.prompt[k][1] \in EscapeCarriers
                               THEN Append(p.prompt[k], "escapes_processed") ELSE p.prompt[k]]]

\* Fault variant of PostprocessCpuParams: the batch pool is post-processed
\* as if it had no role model, so a negative count becomes the math cores.
PostprocessCpuParams_ownCores(p) ==
  LET c == [p EXCEPT !.n_threads = IF @ < 0 THEN MathCores ELSE @] IN
  IF c.n_threads_batch < 0 THEN [c EXCEPT !.n_threads_batch = MathCores] ELSE c

\* postprocess_cpu_params (common.cpp): a negative n_threads becomes the
\* math cores when there is no role model; with one, the whole struct is
\* copied from it, so cpuparams_batch without -tb takes cpuparams'
\* thread count and priority.
PostprocessCpuParams(p) ==
  LET c == [p EXCEPT !.n_threads = IF @ < 0 THEN MathCores ELSE @] IN
  IF c.n_threads_batch < 0
  THEN [c EXCEPT !.n_threads_batch = c.n_threads, !.priority_batch = c.priority]
  ELSE c

\* Everything after the argv loop: the interactive check, the model default, escapes.
PostParse(p) ==
  LET q == PostprocessCpuParams(p) IN
  IF q.prompt_cache_all /\ (q.interactive \/ q.interactive_first) THEN Thrown(q)
  ELSE LET r == HandleModelDefault(q) IN
       IF r.st /= "ok" THEN r ELSE Ok(ProcessEscapes(r.p))

-----------------------------------------------------------------------------
Init ==
  /\ \E in \in Inputs : argv = in[1] /\ env = in[2]
  /\ params = Defaults
  /\ phase = "env"
  /\ i = 1

\* The step of gpt_params_parse_ex that a handler result leads to.
Continue(r, next, i2) ==
  /\ params' = r.p
  /\ phase' = CASE r.st = "ok" -> next [] r.st = "throw" -> "thrown" [] OTHER -> "aborted"
  /\ i' = i2

\* The environment-variable loop.
HandleEnv ==
  /\ phase = "env"
  /\ Continue(EnvLoop(params, Options), "cli", i)
  /\ UNCHANGED <<argv, env>>

\* argv[i] names no option of this example: "invalid argument".
CliUnknown ==
  /\ phase = "cli" /\ i <= Len(argv)
  /\ Canon(argv[i]) \notin DOMAIN ArgToOptions
  /\ phase' = "thrown"
  /\ UNCHANGED <<argv, env, params, i>>

\* Fault variant of CliVoid: no continue after the void handler, so the
\* option falls through to check_arg and consumes two tokens as values.
CliVoid_fallThrough ==
  /\ phase = "cli" /\ i <= Len(argv)
  /\ Canon(argv[i]) \in DOMAIN ArgToOptions
  /\ ArgToOptions[Canon(argv[i])].kind = "void"
  /\ IF i + 2 > Len(argv)
     THEN Continue(Thrown(HandlerVoid(ArgToOptions[Canon(argv[i])], params)), "cli", i)
     ELSE Continue(Ok(HandlerVoid(ArgToOptions[Canon(argv[i])], params)), "cli", i + 3)
  /\ UNCHANGED <<argv, env>>

\* A void option: its handler, then continue with the next token.
CliVoid ==
  /\ phase = "cli" /\ i <= Len(argv)
  /\ Canon(argv[i]) \in DOMAIN ArgToOptions
  /\ ArgToOptions[Canon(argv[i])].kind = "void"
  /\ Continue(Ok(HandlerVoid(ArgToOptions[Canon(argv[i])], params)), "cli", i + 1)
  /\ UNCHANGED <<argv, env>>

\* check_arg: an option taking a value is the last token.
CliMissingValue ==
  /\ phase = "cli" /\ i <= Len(argv)
  /\ Canon(argv[i]) \in DOMAIN ArgToOptions
  /\ ArgToOptions[Canon(argv[i])].kind /= "void"
  /\ i + 1 > Len(argv)
  /\ phase' = "thrown"
  /\ UNCHANGED <<argv, env, params, i>>

\* An option taking a value consumes argv[i + 1], whatever that token is.
CliValue ==
  /\ phase = "cli" /\ i <= Len(argv)
  /\ Canon(argv[i]) \in DOMAIN ArgToOptions
  /\ ArgToOptions[Canon(argv[i])].kind /= "void"
  /\ i + 1 <= Len(argv)
  /\ Continue(HandlerValue(ArgToOptions[Canon(argv[i])], params, argv[i + 1]), "cli", i + 2)
  /\ UNCHANGED <<argv, env>>

\* The loop has run out of tokens: post-processing, and gpt_params_parse_ex returns true.
Post ==
  /\ phase = "cli" /\ i > Len(argv)
  /\ Continue(PostParse(params), "parsed", i)
  /\ UNCHANGED <<argv, env>>

\* gpt_params_parse: with usage set it prints the usage and exits, else returns true.
Return ==
  /\ phase = "parsed"
  /\ phase' = IF params.usage THEN "usage" ELSE "done"
  /\ UNCHANGED <<argv, env, params, i>>

\* Fault variant of Catch: returns false without restoring params_org.
Catch_noRestore ==
  /\ phase = "thrown"
  /\ phase' = "failed"
  /\ UNCHANGED <<argv, env, params, i>>

\* gpt_params_parse catches invalid_argument, restores params_org and returns false.
Catch ==
  /\ phase = "thrown"
  /\ params' = Defaults
  /\ phase' = "failed"
  /\ UNCHANGED <<argv, env, i>>

Next ==
  \/ HandleEnv
  \/ CliUnknown \/ CliVoid \/ CliMissingValue \/ CliValue
  \/ Post \/ Return \/ Catch

Spec == Init /\ [][Next]_vars /\ WF_vars(Next)

Terminal == {"done", "usage", "failed", "aborted"}

(***************************************************************************)
(* Reference: what parsing should produce, field by field.  argv is cut   *)
(* into option/value segments; a field takes the value of the last        *)
(* segment whose handler assigns it, else the value of the last option    *)
(* whose environment variable assigns it, else its default.  The two      *)
(* fields that handlers append to are the exception: antiprompt is every  *)
(* -r value in order, and prompt is the last -p or -bf prompt followed by *)
(* every -f file after it.  Any throw, in the environment pass, in a      *)
(* segment or after, leaves the defaults.                                 *)
(***************************************************************************)
RECURSIVE Segments(_)
Segments(s) ==
  IF s = <<>> THEN <<>>
  ELSE IF Canon(s[1]) \notin DOMAIN ArgToOptions THEN <<[err |-> TRUE]>>
  ELSE LET o == ArgToOptions[Canon(s[1])] IN
       IF o.kind = "void" THEN <<[err |-> FALSE, o |-> o, v |-> "none"]>> \o Segments(Tail(s))
       ELSE IF Len(s) = 1 THEN <<[err |-> TRUE]>>
       ELSE <<[err |-> FALSE, o |-> o, v |-> s[2]]>> \o Segments(Tail(Tail(s)))

RefSegs == Segments(argv)

SegResult(seg) ==
  IF seg.o.kind = "void" THEN Ok(HandlerVoid(seg.o, Defaults)) ELSE HandlerValue(seg.o, Defaults, seg.v)

SegStatus(seg) == IF seg.err THEN "throw" ELSE SegResult(seg).st

EnvAssigns(o) ==
  /\ get_value_from_env(o) /= Unset
  /\ o.kind = "void" => get_value_from_env(o) \in {"1", "true"}

\* The indices, in argv order, of the segments whose handler is one of hs.
SegsOf(hs) == SelectSeq([k \in 1..Len(RefSegs) |-> k],
                        LAMBDA k : ~RefSegs[k].err /\ RefSegs[k].o.kind /= "void" /\ RefSegs[k].o.h \in hs)

RefPrompt ==
  LET set  == SegsOf({"prompt", "binary_file"})
      from == IF set = <<>> THEN 0 ELSE Last(set)
      base == IF set = <<>> THEN Defaults.prompt ELSE SegResult(RefSegs[from]).p.prompt
      more == SelectSeq(SegsOf({"file"}), LAMBDA k : k > from)
  IN base \o [j \in 1..Len(more) |-> <<"file", RefSegs[more[j]].v>>]

RefAntiprompt == [j \in 1..Len(SegsOf({"antiprompt"})) |-> RefSegs[SegsOf({"antiprompt"})[j]].v]

RefParsed ==
  [f \in DOMAIN Defaults |->
     LET cli == {k \in 1..Len(RefSegs) : ~RefSegs[k].err /\ f \in Fields(RefSegs[k].o)}
         ev  == {k \in 1..Len(Options) : f \in Fields(Options[k]) /\ EnvAssigns(Options[k])}
     IN IF f = "prompt" THEN RefPrompt
        ELSE IF f = "antiprompt" THEN RefAntiprompt
        ELSE IF cli /= {} THEN SegResult(RefSegs[Max(cli)]).p[f]
        ELSE IF ev /= {} THEN EnvApply(Options[Max(ev)], Defaults).p[f]
        ELSE Defaults[f]]

RefOutcome ==
  LET envBad == {k \in 1..Len(Options) : EnvApply(Options[k], Defaults).st /= "ok"}
      bad    == {k \in 1..Len(RefSegs) : SegStatus(RefSegs[k]) /= "ok"}
  IN IF envBad /= {} THEN "failed"
     ELSE IF bad /= {} THEN IF SegStatus(RefSegs[Min(bad)]) = "abort" THEN "aborted" ELSE "failed"
     ELSE LET post == PostParse(RefParsed) IN
          IF post.st /= "ok" THEN "failed" ELSE IF post.p.usage THEN "usage" ELSE "done"

RefFinal == IF RefOutcome = "failed" THEN Defaults ELSE PostParse(RefParsed).p

-----------------------------------------------------------------------------
\* Type invariant.
TypeOK ==
  /\ argv \in Seq(Tokens)
  /\ phase \in {"env", "cli", "parsed", "thrown"} \cup Terminal
  /\ i \in 1..Len(argv) + 1
  /\ DOMAIN params = DOMAIN Defaults
  /\ params.n_threads \in {-1} \cup (Nat \ {0})
  /\ params.n_threads_batch \in {-1} \cup (Nat \ {0})
  /\ params.model \in {"", DefaultModelPath} \cup Tokens \cup {fs_get_cache_file(Basename[t]) : t \in DOMAIN Basename}

\* gpt_params_parse ends the way the reference says for this argv and
\* environment: it returns true, prints the usage and exits, returns false, or
\* aborts in parse_prompt, and only then.  This is about the argv loop's
\* token consumption (a value is taken whatever it looks like, a void option
\* takes none), check_arg's bound, and the order of env, argv and post checks.
ParseOutcomeMatchesRef == phase \in Terminal => phase = RefOutcome

\* When gpt_params_parse returns, every modelled field holds what the
\* reference says: a command-line option overrides its environment variable,
\* the last occurrence of an option wins, and a parse that fails leaves the
\* caller's params as they were (the catch in gpt_params_parse restores
\* params_org after handlers have already written to them).
ParamsMatchRef == phase \in {"done", "usage", "failed"} => params = RefFinal

\* The accepted segments of argv that use option o.
Given(o) == {k \in 1..Len(RefSegs) : ~RefSegs[k].err /\ RefSegs[k].o = o}

\* -tb's help (arg.cpp:759): "default: same as --threads".  Without an
\* accepted -tb, the batch thread count gpt_params_parse returns is the main
\* pool's, however that was set: by -t or LLAMA_ARG_THREADS, through -t's
\* <= 0 fallback to hardware_concurrency, or by the math-cores default
\* (postprocess_cpu_params fills cpuparams_batch from cpuparams after the
\* loop, and cpuparams itself first).
BatchThreadsFollowMain ==
  phase = "done" /\ Given(OptThreadsBatch) = {} =>
    params.n_threads_batch = params.n_threads

\* A --prio-batch value that the handler accepted is the batch priority
\* gpt_params_parse returns.
PrioBatchHonoured ==
  phase = "done" /\ Given(OptPrioBatch) /= {} =>
    params.priority_batch = Stoi[RefSegs[Max(Given(OptPrioBatch))].v]

\* Every case of parse_prompt's per-model switch selects its fixed prompt:
\* "qwen#1" gives "I I" and "llama#1" gives "I".
PromptCasesReachable ==
  \A m \in DOMAIN FixedLens : \A n \in FixedLens[m] : PromptFor(m, n) = <<"fixed", m, n>>
====
