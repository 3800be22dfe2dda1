\* Every autoinstall config shape and variant; install confirmation with
\* configured() succeeding or failing; setup_autoinstall of every controller.
CONSTANTS
    kernel = kernel
    source = source
    timezone = timezone
    k1 = k1
    k2 = k2
    server = server
    desktop = desktop
    None = None
    Ctrls <- MCCtrls
    Keys <- MCKeys
    Variants <- MCVariants
    Key <- MCKey
    Alias <- MCAlias
    ForVariants <- MCForVariants
    HasModel <- MCHasModel
    NonInteractive <- MCNonInteractive
    HasDefault <- MCHasDefault
    HasSchema <- MCHasSchema
    MaxBoots <- MCMaxBoots
SPECIFICATION Spec
INVARIANTS
    InteractiveMatchesDoc
    DisabledOnlyWhenConfigured
    LoadsDocumentedSection
PROPERTY
    NotApplicableConfigured
