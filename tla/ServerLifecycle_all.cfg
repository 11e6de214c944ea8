SPECIFICATION LifecycleSpec
CONSTANTS
    Integrations <- AllIntegrations
    Kinds = {"pointer", "touch", "keyboard"}
INVARIANTS DestroyedInOrder
PROPERTIES HooksInLifetime TestEnds
