----------------------------- MODULE MCArgParse -----------------------------
(* ArgParse for the main example: with no variable set, every argv of up   *)
(* to three of twenty-five tokens and ten four-token argvs that combine    *)
(* the prompt, reverse-prompt and batch options; in each of thirteen other *)
(* environments, and with no variable set, every argv of up to two of      *)
(* thirty-two tokens; and with no variable set, every argv of up to two   *)
(* of those and the five interactive-mode options.                        *)
EXTENDS ArgParse, TLC

MCTokens == {"-t", "-tb", "--prio", "--prio-batch", "-p", "-f", "-bf", "-r",
             "--no-escape", "--numa", "-m", "-i", "--prompt_cache_all", "-h",
             "0", "1", "5", "x", "", "a/b", "qwen#1", "qwen#32", "qwen#x",
             "llama#16", "gemma#20"}

\* The two-token argvs also take the options that only an environment
\* variable or a table value tells apart.
MCTokens2 == MCTokens \cup {"-c", "-ngl", "-dt", "--no-perf", "-sm", "--rope-scaling", "none"}

\* The interactive-mode options, which no environment variable reaches.
MCTokens3 == MCTokens2 \cup {"-cnv", "-mli", "--in-prefix-bos", "--in-prefix", "--in-suffix"}

\* Four-token argvs: -p, -f and -bf in both orders, two files, a droid
\* prompt with a file after it, two reverse prompts, and the batch options.
MCLongArgvs ==
  { <<"-p", "qwen#32", "-f", "a/b">>, <<"-f", "a/b", "-p", "qwen#32">>,
    <<"-bf", "a/b", "-f", "a/b">>, <<"-f", "a/b", "-bf", "a/b">>,
    <<"-f", "a/b", "-f", "a/b">>, <<"-p", "llama#16", "-f", "a/b">>,
    <<"-r", "x", "-r", "a/b">>, <<"-tb", "1", "--prio-batch", "1">>,
    <<"--prio", "1", "-tb", "0">>, <<"--prio", "1", "--prio-batch", "5">> }

\* The one path std::ifstream opens.
MCFiles == {"a/b"}

\* std::stoi on the tokens and '#'-suffixes that are numbers.
MCStoi == ("0" :> 0) @@ ("1" :> 1) @@ ("16" :> 16) @@ ("20" :> 20) @@ ("32" :> 32) @@ ("5" :> 5)

\* The one "--" token with an underscore.
MCDashed == "--prompt_cache_all" :> "--prompt-cache-all"

\* value.substr(0, pos) and value.substr(pos + 1) around the '#'.
MCHashSplit == ("qwen#1" :> <<"qwen", "1">>) @@ ("qwen#32" :> <<"qwen", "32">>)
               @@ ("qwen#x" :> <<"qwen", "x">>) @@ ("llama#16" :> <<"llama", "16">>)
               @@ ("gemma#20" :> <<"gemma", "20">>)

\* The last '/'-separated part of the path values.
MCBasename == "a/b" :> "b"

EnvNames == {"LLAMA_ARG_THREADS", "LLAMA_ARG_FLASH_ATTN", "LLAMA_ARG_MODEL",
             "LLAMA_ARG_MODEL_URL", "LLAMA_ARG_HF_REPO", "LLAMA_ARG_HF_FILE",
             "LLAMA_ARG_CONT_BATCHING", "LLAMA_ARG_NO_CONT_BATCHING",
             "LLAMA_ARG_CTX_SIZE", "LLAMA_ARG_N_PREDICT", "LLAMA_ARG_BATCH",
             "LLAMA_ARG_UBATCH", "LLAMA_ARG_NO_PERF", "LLAMA_ARG_DEFRAG_THOLD",
             "LLAMA_ARG_N_PARALLEL", "LLAMA_ARG_N_GPU_LAYERS", "HF_TOKEN"}
NoEnv == [n \in EnvNames |-> "unset"]
With(e, n, v) == [e EXCEPT ![n] = v]

\* No variable set; a bad and a zero thread count; flash attention on and
\* "0"; a model; a repository with and without a file; a model URL; a
\* server-only variable; a model together with a zero thread count; every
\* other modelled variable set to a value its handler accepts; a context
\* size and a defragmentation threshold that are not numbers.
MCEnvChoices ==
  { NoEnv,
    With(NoEnv, "LLAMA_ARG_THREADS", "x"),
    With(NoEnv, "LLAMA_ARG_THREADS", "0"),
    With(NoEnv, "LLAMA_ARG_FLASH_ATTN", "1"),
    With(NoEnv, "LLAMA_ARG_FLASH_ATTN", "0"),
    With(NoEnv, "LLAMA_ARG_MODEL", "a/b"),
    With(NoEnv, "LLAMA_ARG_HF_REPO", "a/b"),
    With(With(NoEnv, "LLAMA_ARG_HF_REPO", "a/b"), "LLAMA_ARG_HF_FILE", "a/b"),
    With(NoEnv, "LLAMA_ARG_MODEL_URL", "a/b"),
    With(NoEnv, "LLAMA_ARG_CONT_BATCHING", "1"),
    With(With(NoEnv, "LLAMA_ARG_MODEL", "a/b"), "LLAMA_ARG_THREADS", "0"),
    [n \in EnvNames |->
       CASE n \in {"LLAMA_ARG_CTX_SIZE", "LLAMA_ARG_N_PREDICT", "LLAMA_ARG_BATCH",
                   "LLAMA_ARG_UBATCH", "LLAMA_ARG_DEFRAG_THOLD",
                   "LLAMA_ARG_N_PARALLEL", "LLAMA_ARG_N_GPU_LAYERS"} -> "5"
         [] n = "LLAMA_ARG_NO_PERF" -> "true"
         [] n = "HF_TOKEN" -> "x"
         [] OTHER -> "unset"],
    With(NoEnv, "LLAMA_ARG_CTX_SIZE", "x"),
    With(NoEnv, "LLAMA_ARG_DEFRAG_THOLD", "a/b") }

MCInputs == ((BoundedSeq(MCTokens, 3) \cup MCLongArgvs) \X {NoEnv})
              \cup (BoundedSeq(MCTokens2, 2) \X MCEnvChoices)
              \cup (BoundedSeq(MCTokens3, 2) \X {NoEnv})
====
