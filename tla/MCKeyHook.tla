----------------------------- MODULE MCKeyHook -----------------------------
EXTENDS KeyHookProps, TLC

CONSTANTS alt, win, tab, esc, key

Row(k, mods, act, release, repeat) ==
    [key |-> k, mods |-> mods, act |-> act, release |-> release, repeat |-> repeat, inhibitable |-> TRUE]

Browsing == [rows |-> {Row(key, {alt}, "plain", FALSE, TRUE)}, recent |-> TRUE]
Shooting == [rows |-> {Row(key, {alt}, "shot", FALSE, FALSE)}, recent |-> TRUE]
Binding == [rows |-> {Row(key, {alt}, "inhibit", TRUE, FALSE), Row(key, {}, "sheet", FALSE, FALSE),
                      Row(tab, {alt}, "shot", FALSE, FALSE)}, recent |-> FALSE]

MCConfigs == {Browsing, Shooting, Binding}

Scene(keys, surfaces, configs) == [keys |-> keys, surfaces |-> surfaces, configs |-> configs]

MCScenes ==
    {Scene({alt, tab, key}, {}, {Browsing, Binding}),
     Scene({alt, win, tab}, {}, {Browsing, Binding}),
     Scene({alt, tab, key}, {}, {Shooting}),
     Scene({alt, key}, {"sheet", "shot"}, {Browsing, Binding}),
     Scene({alt, tab}, {"shot"}, {Browsing, Binding}),
     Scene({alt, esc}, {"pick", "shot"}, {Browsing})}
=============================================================================
