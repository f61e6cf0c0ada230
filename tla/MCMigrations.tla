----------------------------- MODULE MCMigrations -----------------------------
EXTENDS Migrations

\* A value of each list that a revision brings, renames or retires.
Values == {<<"target_type", "series">>, <<"target_type", "concepts">>,
           <<"target_type", "series_families">>, <<"target_type", "indicators">>,
           <<"target_type", "enum_value">>, <<"target_type", "categories">>,
           <<"target_type", "source_groups">>, <<"proposal_type", "add_family">>,
           <<"proposal_type", "add_indicator">>, <<"action", "suggest_human_apply">>,
           <<"validation_status", "declined_by_operator">>}
===============================================================================
