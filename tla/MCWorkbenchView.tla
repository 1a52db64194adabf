--------------------------- MODULE MCWorkbenchView ---------------------------
(* WorkbenchView with small sets for TLC. *)
EXTENDS WorkbenchView

MCTours ==
    {[pages |-> {"training", "adapters"}, clicks |-> 4],
     [pages |-> {"training", "models"}, clicks |-> 3],
     [pages |-> {"training", "datasets"}, clicks |-> 3],
     [pages |-> {"training", "suggestions"}, clicks |-> 3],
     [pages |-> {"datasets"}, clicks |-> 4],
     [pages |-> {"suggestions"}, clicks |-> 4],
     [pages |-> {"artifacts"}, clicks |-> 4],
     [pages |-> {"projects"}, clicks |-> 4],
     [pages |-> {"projects", "weights"}, clicks |-> 3],
     [pages |-> {"weights"}, clicks |-> 4],
     [pages |-> {"shell"}, clicks |-> 4],
     [pages |-> {"voice", "home"}, clicks |-> 5],
     [pages |-> {"serving", "home"}, clicks |-> 5],
     [pages |-> {"form"}, clicks |-> 0]}
MCYamlTours == {[pages |-> {"training"}, clicks |-> 5]}
MCFlowTours == {[pages |-> {"weights"}, clicks |-> 2]}
MCSwitches == {"training", "serving", "datasets"}
MCEdits == {"training", "mapping", "quantization"}

Leaf(name, type, params) ==
    [name |-> name, type |-> type, params |-> params, children |-> <<>>]
Module(name, type, children) ==
    [name |-> name, type |-> type, params |-> 0, children |-> children]

Attention == Module("attn", "Attention", <<Leaf("q", "Linear", 4), Leaf("norm", "Norm", 1)>>)
PlainBlock(i) ==
    Module(i, "Block", <<Attention, Leaf("mlp", "MLP", 6), Leaf("act", "GELU", 0),
                         Leaf("post", "Norm", 1)>>)

\* a layer of LlamaForCausalLM: in it are runs of four and of three projections
Projections == <<Leaf("q_proj", "Linear", 4), Leaf("k_proj", "Linear", 2),
                 Leaf("v_proj", "Linear", 2), Leaf("o_proj", "Linear", 4)>>
LlamaLayer(i) ==
    Module(i, "Layer",
           <<Module("self_attn", "Attention", Projections),
             Module("mlp", "MLP", <<Leaf("gate_proj", "Linear", 8), Leaf("up_proj", "Linear", 8),
                                    Leaf("down_proj", "Linear", 8), Leaf("act_fn", "SiLU", 0)>>),
             Leaf("input_layernorm", "Norm", 1), Leaf("post_attention_layernorm", "Norm", 1)>>)

\* a decoder of equal blocks; a transformer; one of single containers and leaves only
MCArchitectures ==
    {Module("M", "Causal",
            <<Leaf("embed", "Embedding", 9),
              Module("layers", "List", <<PlainBlock("0"), PlainBlock("1"), PlainBlock("2")>>),
              Leaf("head", "Linear", 9)>>),
     Module("T", "Causal",
            <<Module("model", "LlamaModel",
                     <<Leaf("embed_tokens", "Embedding", 9),
                       Module("layers", "List", <<LlamaLayer("0"), LlamaLayer("1")>>),
                       Leaf("norm", "Norm", 1)>>),
              Leaf("lm_head", "Linear", 9)>>),
     Module("F", "Causal",
            <<Attention, Leaf("a", "Linear", 2), Leaf("b", "Linear", 3), Leaf("n", "Norm", 1)>>)}
MCWidths == {300, 620}

=============================================================================
