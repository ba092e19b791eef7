------------------------- MODULE MCReceiverPipeline -------------------------
EXTENDS ReceiverPipeline

MCConfig(timing, delayed, acked, dry) ==
    [use_delete |-> timing # "none", delete_missing_args |-> FALSE,
     timing |-> timing, delay_updates |-> delayed,
     remove_source_files |-> acked, save_to_disk |-> TRUE, dry_run |-> dry]

Entry(bytes, kind) == [bytes |-> bytes, kind |-> kind]

\* Every deletion timing, with and without --delay-updates, --remove-source-files
\* and --dry-run.
MCConfigs ==
    { MCConfig("none", TRUE, TRUE, FALSE),
      MCConfig("before", FALSE, FALSE, FALSE),
      MCConfig("during", FALSE, TRUE, FALSE),
      MCConfig("delay", FALSE, FALSE, FALSE),
      MCConfig("after", TRUE, FALSE, FALSE),
      MCConfig("before", FALSE, FALSE, TRUE),
      MCConfig("delay", TRUE, TRUE, TRUE),
      [MCConfig("none", FALSE, TRUE, FALSE) EXCEPT !.delete_missing_args = TRUE,
                                                  !.save_to_disk = FALSE] }

\* With the budget of 4, a data file fits twice or is larger than all of it;
\* the other kinds of entry carry no payload.
MCPayloads == {Entry(2, "reg"), Entry(5, "reg")} \cup {Entry(0, k) : k \in Kinds \ {"reg"}}
=============================================================================
