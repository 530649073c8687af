SPECIFICATION Spec
CONSTANTS
    VersionTexts <- MCVersionTexts
    ImageFormats = {"docker", "aci"}
    Layers <- MCLayers
    PackageFiles <- MCPackageFiles
    SourceTexts <- MCSourceTexts
    CriteriaTrees <- MCCriteriaTrees
    UbuntuFiles <- MCUbuntuFiles
    DebianDocuments <- MCDebianDocuments
    Updates <- MCUpdates
INVARIANTS
    VersionOrder LayerNamespace ListedPackages SourceRPM
    PossibilitiesAreDNF  Namespaced
